---------------------------- MODULE Spec2Model ----------------------------
(***************************************************************************)
(* A model of go/types expression checking (src/go/types/expr.go): the     *)
(* representability check of constants, the operator rules (unary, binary, *)
(* shift, comparison), convertUntyped, the table of untyped expressions    *)
(* with updateExprType, and the element loop of array and slice literals.  *)
(*                                                                         *)
(* Expressions are checked bottom-up, as the recursive descent of rawExpr  *)
(* returns: an action of the model is one return of rawExpr for a new      *)
(* node whose operands have been checked (they are on top of `stack`), or  *)
(* one use of a checked expression by its context (convertUntyped), or the *)
(* end of the pass.                                                        *)
(***************************************************************************)
EXTENDS Integers, Sequences, FiniteSets, TLC

VARIABLES
    nodes,      \* the expression nodes checked so far, in the order rawExpr returned
    opnd,       \* opnd[n]: the operand rawExpr returned for node n (later converted)
    untyped,    \* check.untyped: node -> exprInfo, for the nodes still untyped
    notes,      \* notes[n]: the types Context.Expr was invoked with for node n
    errs,       \* the diagnostics reported so far, in order: <<node, message>>
    stack,      \* the checked nodes not yet used by a parent or a context
    done,       \* the pass is over
    last,       \* the last rule applied: its name, node, diagnostics and result
    fn,         \* the function being applied: its arguments, locals and result
    lit,        \* indexedElts: the literal being checked and the loop's locals
    funclist    \* the function bodies to check later, and those checked

exprVars == <<nodes, opnd, untyped, notes, errs, stack, done, last, funclist>>
vars == <<nodes, opnd, untyped, notes, errs, stack, done, last, fn, lit, funclist>>

-----------------------------------------------------------------------------
(* Arbitrary-precision integers (math/big behind exact.Value): a sign and a *)
(* magnitude of little-endian limbs, no leading zero limb, zero non-negative *)

Base == 2^15

BigZero == [neg |-> FALSE, mag |-> <<>>]

RECURSIVE MagOf(_)
MagOf(n) == IF n = 0 THEN <<>> ELSE <<n % Base>> \o MagOf(n \div Base)

BigOf(n) == IF n < 0 THEN [neg |-> TRUE, mag |-> MagOf(-n)]
            ELSE [neg |-> FALSE, mag |-> MagOf(n)]

RECURSIVE MagStrip(_)
MagStrip(m) == IF m # <<>> /\ m[Len(m)] = 0 THEN MagStrip(SubSeq(m, 1, Len(m) - 1))
               ELSE m

MkBig(neg, m) == LET s == MagStrip(m) IN [neg |-> neg /\ s # <<>>, mag |-> s]

RECURSIVE MagCmpAt(_, _, _)
MagCmpAt(a, b, i) == IF i = 0 THEN 0
                     ELSE IF a[i] < b[i] THEN -1
                     ELSE IF a[i] > b[i] THEN 1
                     ELSE MagCmpAt(a, b, i - 1)

MagCmp(a, b) == IF Len(a) < Len(b) THEN -1
                ELSE IF Len(a) > Len(b) THEN 1
                ELSE MagCmpAt(a, b, Len(a))

Limb(m, i) == IF i <= Len(m) THEN m[i] ELSE 0

RECURSIVE MagAddAt(_, _, _, _)
MagAddAt(a, b, i, carry) ==
    IF i > Len(a) /\ i > Len(b)
    THEN (IF carry = 0 THEN <<>> ELSE <<carry>>)
    ELSE LET s == Limb(a, i) + Limb(b, i) + carry
         IN <<s % Base>> \o MagAddAt(a, b, i + 1, s \div Base)

MagAdd(a, b) == MagAddAt(a, b, 1, 0)

RECURSIVE MagSubAt(_, _, _, _)
MagSubAt(a, b, i, borrow) ==
    IF i > Len(a) THEN <<>>
    ELSE LET d == Limb(a, i) - Limb(b, i) - borrow
         IN <<d % Base>> \o MagSubAt(a, b, i + 1, IF d < 0 THEN 1 ELSE 0)

\* a - b for magnitudes with a >= b
MagSub(a, b) == MagStrip(MagSubAt(a, b, 1, 0))

BigNeg(x) == MkBig(~x.neg, x.mag)

BigAdd(x, y) ==
    IF x.neg = y.neg THEN MkBig(x.neg, MagAdd(x.mag, y.mag))
    ELSE IF MagCmp(x.mag, y.mag) >= 0 THEN MkBig(x.neg, MagSub(x.mag, y.mag))
    ELSE MkBig(y.neg, MagSub(y.mag, x.mag))

BigSub(x, y) == BigAdd(x, BigNeg(y))

BigSign(x) == IF x.mag = <<>> THEN 0 ELSE IF x.neg THEN -1 ELSE 1

BigCmp(x, y) ==
    IF x.neg # y.neg THEN (IF x.neg THEN -1 ELSE 1)
    ELSE IF x.neg THEN MagCmp(y.mag, x.mag)
    ELSE MagCmp(x.mag, y.mag)

BigLeq(x, y) == BigCmp(x, y) <= 0

RECURSIVE MagMulSmallAt(_, _, _, _)
MagMulSmallAt(a, k, i, carry) ==
    IF i > Len(a) THEN (IF carry = 0 THEN <<>> ELSE <<carry>>)
    ELSE LET p == a[i] * k + carry
         IN <<p % Base>> \o MagMulSmallAt(a, k, i + 1, p \div Base)

RECURSIVE Zeros(_)
Zeros(n) == IF n = 0 THEN <<>> ELSE <<0>> \o Zeros(n - 1)

\* x * 2^s
BigShl(x, s) ==
    MkBig(x.neg, Zeros(s \div 15) \o MagMulSmallAt(x.mag, 2^(s % 15), 1, 0))

Pow2(s) == BigShl(BigOf(1), s)

\* the limbs of a magnitude from limb q + i on, shifted right by r < 15 bits
RECURSIVE MagShrAt(_, _, _, _)
MagShrAt(m, q, r, i) ==
    IF q + i > Len(m) THEN <<>>
    ELSE <<(m[q + i] \div 2^r) + (Limb(m, q + i + 1) % 2^r) * 2^(15 - r)>>
         \o MagShrAt(m, q, r, i + 1)

\* floor(x / 2^s), the arithmetic shift of math/big
BigShr(x, s) ==
    IF ~x.neg THEN MkBig(FALSE, MagShrAt(x.mag, s \div 15, s % 15, 1))
    ELSE BigSub(MkBig(TRUE, MagShrAt(MagSub(x.mag, <<1>>), s \div 15, s % 15, 1)),
                BigOf(1))

RECURSIVE LimbBits(_)
LimbBits(n) == IF n = 0 THEN 0 ELSE 1 + LimbBits(n \div 2)

\* the number of bits of |x|, 0 for 0
BigBitLen(x) == IF x.mag = <<>> THEN 0
                ELSE 15 * (Len(x.mag) - 1) + LimbBits(x.mag[Len(x.mag)])

\* a magnitude below Base^2 as a number of the model checker
MagSmall(m) == Limb(m, 1) + Base * Limb(m, 2)
IsSmall(x) == Len(x.mag) <= 2
Small(x) == IF x.neg THEN -MagSmall(x.mag) ELSE MagSmall(x.mag)

MinInt64 == BigNeg(Pow2(63))
MaxInt64 == BigSub(Pow2(63), BigOf(1))

\* two's-complement wrap-around of Go's int64 arithmetic
RECURSIVE Wrap64(_)
Wrap64(x) == IF BigCmp(x, MaxInt64) > 0 THEN Wrap64(BigSub(x, Pow2(64)))
             ELSE IF BigCmp(x, MinInt64) < 0 THEN Wrap64(BigAdd(x, Pow2(64)))
             ELSE x

\* Go: int64(a) << s for a variable s (s >= 64 shifts everything out)
Int64Shl(a, s) == IF s >= 64 THEN BigZero ELSE Wrap64(BigShl(a, s))
\* Go: a - b on int64
Int64Sub(a, b) == Wrap64(BigSub(a, b))

-----------------------------------------------------------------------------
(* exact.Value: a constant value, tagged by its kind. A Float is a rational *)
(* that is no integer and a Complex has a non-zero imaginary part (the      *)
(* package normalises a value to the simplest kind that holds it).          *)

NoVal == [kind |-> "none"]
UnknownVal == [kind |-> "Unknown"]
MakeBool(b) == [kind |-> "Bool", b |-> b]
MakeInt(n) == [kind |-> "Int", int |-> BigOf(n)]
MakeBig(x) == [kind |-> "Int", int |-> x]
MakeFloat(n, d) == [kind |-> "Float", num |-> n, den |-> d]
MakeComplex(re, im) == [kind |-> "Complex", re |-> re, im |-> im]
MakeString(s) == [kind |-> "String", s |-> s]
NilVal == [kind |-> "Nil"]

\* exact.Int64Val: the value as an int64, and whether it is one
Int64Val(x) ==
    CASE x.kind = "Int" ->
            [val |-> x.int, ok |-> BigLeq(MinInt64, x.int) /\ BigLeq(x.int, MaxInt64)]
      [] x.kind = "Unknown" -> [val |-> BigZero, ok |-> FALSE]

\* exact.Uint64Val: the value as a uint64, and whether it is one
Uint64Val(x) ==
    CASE x.kind = "Int" ->
            [val |-> x.int, ok |-> BigSign(x.int) >= 0 /\ BigBitLen(x.int) <= 64]
      [] x.kind = "Unknown" -> [val |-> BigZero, ok |-> FALSE]

\* exact.BitLen
BitLen(x) == BigBitLen(x.int)

\* exact.Sign: -1, 0 or 1; 1 for an unknown value
Sign(x) ==
    CASE x.kind = "Int" -> BigSign(x.int)
      [] x.kind = "Float" -> (IF x.num < 0 THEN -1 ELSE 1)
      [] x.kind = "Complex" -> 1
      [] x.kind = "Unknown" -> 1

-----------------------------------------------------------------------------
(* Basic kinds, in the order of the BasicKind enumeration *)

BasicKinds ==
    << "Invalid", "Bool", "Int", "Int8", "Int16", "Int32", "Int64",
       "Uint", "Uint8", "Uint16", "Uint32", "Uint64", "Uintptr",
       "Float32", "Float64", "Complex64", "Complex128", "String",
       "UnsafePointer", "UntypedBool", "UntypedInt", "UntypedRune",
       "UntypedFloat", "UntypedComplex", "UntypedString", "UntypedNil" >>

AllKinds == {BasicKinds[i] : i \in 1..Len(BasicKinds)}

KindRank(k) == CHOOSE i \in 1..Len(BasicKinds) : BasicKinds[i] = k

\* Context: the configured size in bytes of int, uint and uintptr
WordSizes == {4, 8}
Sizeof(ctxt, kind) == ctxt.wordSize

-----------------------------------------------------------------------------
(* isRepresentableConst *)

Int64Cases == {"Int", "Int8", "Int16", "Int32", "Int64", "Uint", "Uintptr",
               "Uint8", "Uint16", "Uint32", "Uint64", "Float32", "Float64",
               "Complex64", "Complex128", "UntypedInt", "UntypedFloat",
               "UntypedComplex"}

\* a mutant of SignedConstRange: the upper bound is 1<<s - 1
SignedConstRangeWide(x, s) ==
    BigLeq(BigNeg(Pow2(s - 1)), x) /\ BigLeq(x, BigSub(Pow2(s), BigOf(1)))

\* const s; -1<<(s-1) <= x && x <= 1<<(s-1)-1, in constant arithmetic
SignedConstRange(x, s) ==
    BigLeq(BigNeg(Pow2(s - 1)), x) /\ BigLeq(x, BigSub(Pow2(s - 1), BigOf(1)))

\* const s; 0 <= x && x <= 1<<s-1, in constant arithmetic
UnsignedConstRange(x, s) ==
    BigLeq(BigZero, x) /\ BigLeq(x, BigSub(Pow2(s), BigOf(1)))

\* the switch on `as` for a value x that is an int64
RepresentableInt64(x, ctxt, as) ==
    CASE as = "Int" ->
            LET s == Sizeof(ctxt, as) * 8
            IN /\ BigLeq(Int64Shl(BigOf(-1), s - 1), x)
               /\ BigLeq(x, Int64Sub(Int64Shl(BigOf(1), s - 1), BigOf(1)))
      [] as = "Int8" -> SignedConstRange(x, 8)
      [] as = "Int16" -> SignedConstRange(x, 16)
      [] as = "Int32" -> SignedConstRange(x, 32)
      [] as = "Int64" -> TRUE
      [] as \in {"Uint", "Uintptr"} ->
            LET s == Sizeof(ctxt, as) * 8
            IN IF s < 64
               THEN /\ BigLeq(BigZero, x)
                    /\ BigLeq(x, Int64Sub(Int64Shl(BigOf(1), s), BigOf(1)))
               ELSE BigLeq(BigZero, x)
      [] as = "Uint8" -> UnsignedConstRange(x, 8)
      [] as = "Uint16" -> UnsignedConstRange(x, 16)
      [] as = "Uint32" -> UnsignedConstRange(x, 32)
      [] as = "Uint64" -> BigLeq(BigZero, x)
      [] as \in {"Float32", "Float64", "Complex64", "Complex128"} -> TRUE
      [] as \in {"UntypedInt", "UntypedFloat", "UntypedComplex"} -> TRUE

\* the switch on `as` for an integer value by its bit length
RepresentableBig(x, ctxt, as) ==
    LET n == BitLen(x)
    IN CASE as \in {"Uint", "Uintptr"} ->
                Sign(x) >= 0 /\ n <= Sizeof(ctxt, as) * 8
         [] as = "Uint64" -> Sign(x) >= 0 /\ n <= 64
         [] as \in {"Float32", "Float64", "Complex64", "Complex128"} -> TRUE
         [] as \in {"UntypedInt", "UntypedFloat", "UntypedComplex"} -> TRUE
         [] OTHER -> FALSE

\* the Int case: x as an int64 if it is one, else by its bit length
RepresentableInt(x, i64, ctxt, as) ==
    IF i64.ok /\ as \in Int64Cases
    THEN RepresentableInt64(i64.val, ctxt, as)
    ELSE RepresentableBig(x, ctxt, as)

isRepresentableConst(x, ctxt, as) ==
    CASE x.kind = "Unknown" -> TRUE
      [] x.kind = "Bool" -> as = "Bool" \/ as = "UntypedBool"
      [] x.kind = "Int" -> RepresentableInt(x, Int64Val(x), ctxt, as)
      [] x.kind = "Float" ->
            as \in {"Float32", "Float64", "Complex64", "Complex128",
                    "UntypedFloat", "UntypedComplex"}
      [] x.kind = "Complex" ->
            as \in {"Complex64", "Complex128", "UntypedComplex"}
      [] x.kind = "String" -> as = "String" \/ as = "UntypedString"
      [] x.kind = "Nil" -> as = "UntypedNil" \/ as = "UnsafePointer"

-----------------------------------------------------------------------------
(* Types: a record tagged by its variant. Typ(k) is the basic type of kind k *)

Typ(k) == [tag |-> "Basic", kind |-> k]
Pointer(base) == [tag |-> "Pointer", base |-> base]
Chan(dir, elt) == [tag |-> "Chan", dir |-> dir, elt |-> elt]
Interface(empty) == [tag |-> "Interface", empty |-> empty]
\* Array.len is -1 while the length of an open array [...]T is not known
Array(len, elt) == [tag |-> "Array", len |-> len, elt |-> elt]
Slice(elt) == [tag |-> "Slice", elt |-> elt]
Map(key, elt) == [tag |-> "Map", key |-> key, elt |-> elt]
Signature == [tag |-> "Signature"]
NoType == [tag |-> "None"]

isBasic(t) == t.tag = "Basic"
isBoolean(t) == isBasic(t) /\ t.kind \in {"Bool", "UntypedBool"}
isInteger(t) ==
    isBasic(t) /\ t.kind \in {"Int", "Int8", "Int16", "Int32", "Int64", "Uint",
                              "Uint8", "Uint16", "Uint32", "Uint64", "Uintptr",
                              "UntypedInt", "UntypedRune"}
isUnsigned(t) ==
    isBasic(t) /\ t.kind \in {"Uint", "Uint8", "Uint16", "Uint32", "Uint64", "Uintptr"}
isFloat(t) == isBasic(t) /\ t.kind \in {"Float32", "Float64", "UntypedFloat"}
isComplex(t) == isBasic(t) /\ t.kind \in {"Complex64", "Complex128", "UntypedComplex"}
isNumeric(t) == isInteger(t) \/ isFloat(t) \/ isComplex(t)
isString(t) == isBasic(t) /\ t.kind \in {"String", "UntypedString"}
isUntyped(t) ==
    isBasic(t) /\ t.kind \in {"UntypedBool", "UntypedInt", "UntypedRune", "UntypedFloat",
                              "UntypedComplex", "UntypedString", "UntypedNil"}
isOrdered(t) == isInteger(t) \/ isFloat(t) \/ isString(t)
isComparable(t) ==
    \/ isBasic(t) /\ t.kind # "UntypedNil"
    \/ t.tag \in {"Pointer", "Interface", "Chan"}
hasNil(t) ==
    \/ isBasic(t) /\ t.kind = "UnsafePointer"
    \/ t.tag \in {"Slice", "Pointer", "Signature", "Interface", "Map", "Chan"}
IsIdentical(a, b) == a = b

\* the type an untyped value takes when nothing else decides it
defaultType(t) ==
    IF ~isBasic(t) THEN t
    ELSE CASE t.kind = "UntypedBool" -> Typ("Bool")
           [] t.kind = "UntypedInt" -> Typ("Int")
           [] t.kind = "UntypedRune" -> Typ("Int32")
           [] t.kind = "UntypedFloat" -> Typ("Float64")
           [] t.kind = "UntypedComplex" -> Typ("Complex128")
           [] t.kind = "UntypedString" -> Typ("String")
           [] OTHER -> t

\* the size in bytes of a basic type
KindSize(ctxt, t) ==
    CASE t.kind \in {"Int8", "Uint8", "Bool"} -> 1
      [] t.kind \in {"Int16", "Uint16"} -> 2
      [] t.kind \in {"Int32", "Uint32", "Float32"} -> 4
      [] t.kind \in {"Int64", "Uint64", "Float64", "Complex64"} -> 8
      [] t.kind = "Complex128" -> 16
      [] OTHER -> Sizeof(ctxt, t.kind)

-----------------------------------------------------------------------------
(* Constant arithmetic of package exact. Products and quotients of integers *)
(* are taken on values below 2^30; sums, differences and left shifts on any. *)

RECURSIVE Gcd(_, _)
Gcd(a, b) == IF b = 0 THEN a ELSE Gcd(b, a % b)
Abs(n) == IF n < 0 THEN -n ELSE n

\* the rational n/d (d # 0) as a value: an Int when it is an integer
NormFloat(n, d) ==
    LET g == Gcd(Abs(n), Abs(d))
        sn == (IF d < 0 THEN -n ELSE n) \div g
        sd == Abs(d) \div g
    IN IF sd = 1 THEN MakeInt(sn) ELSE MakeFloat(sn, sd)

SmallInt(x) == CASE IsSmall(x.int) -> Small(x.int)
RatNum(x) == IF x.kind = "Int" THEN SmallInt(x) ELSE x.num
RatDen(x) == IF x.kind = "Int" THEN 1 ELSE x.den

\* truncated division and its remainder
QuoTrunc(a, b) == LET q == Abs(a) \div Abs(b) IN IF (a < 0) # (b < 0) THEN -q ELSE q
RemTrunc(a, b) == a - b * QuoTrunc(a, b)

\* exact.UnaryOp; size is the operand's size in bytes for an unsigned ^, else -1
UnaryOp(op, x, size) ==
    CASE op = "+" -> x
      [] op = "-" /\ x.kind = "Int" -> MakeBig(BigNeg(x.int))
      [] op = "-" /\ x.kind = "Float" -> MakeFloat(-x.num, x.den)
      [] op = "-" /\ x.kind = "Complex" -> MakeComplex(-x.re, -x.im)
      [] op = "^" /\ x.kind = "Int" ->
            IF size >= 0 /\ BigSign(x.int) >= 0
            THEN MakeBig(BigSub(BigSub(Pow2(8 * size), BigOf(1)), x.int))
            ELSE MakeBig(BigSub(BigOf(-1), x.int))
      [] op = "!" /\ x.kind = "Bool" -> MakeBool(~x.b)
      [] x.kind = "Unknown" -> x

\* exact.BinaryOp; "/=" is the truncated division of integers
BinaryOp(x, op, y) ==
    CASE x.kind = "Unknown" \/ y.kind = "Unknown" -> UnknownVal
      [] x.kind = "Bool" /\ y.kind = "Bool" /\ op = "&&" -> MakeBool(x.b /\ y.b)
      [] x.kind = "Bool" /\ y.kind = "Bool" /\ op = "||" -> MakeBool(x.b \/ y.b)
      [] x.kind = "String" /\ y.kind = "String" /\ op = "+" -> MakeString(x.s \o y.s)
      [] x.kind = "Int" /\ y.kind = "Int" /\ op = "+" -> MakeBig(BigAdd(x.int, y.int))
      [] x.kind = "Int" /\ y.kind = "Int" /\ op = "-" -> MakeBig(BigSub(x.int, y.int))
      [] x.kind = "Int" /\ y.kind = "Int" /\ op = "*" -> MakeInt(SmallInt(x) * SmallInt(y))
      [] x.kind = "Int" /\ y.kind = "Int" /\ op = "/" -> NormFloat(SmallInt(x), SmallInt(y))
      [] x.kind = "Int" /\ y.kind = "Int" /\ op = "/=" ->
            MakeInt(QuoTrunc(SmallInt(x), SmallInt(y)))
      [] x.kind = "Int" /\ y.kind = "Int" /\ op = "%" ->
            MakeInt(RemTrunc(SmallInt(x), SmallInt(y)))
      [] {x.kind, y.kind} \subseteq {"Int", "Float"} /\ "Float" \in {x.kind, y.kind}
            /\ op = "+" ->
            NormFloat(RatNum(x) * RatDen(y) + RatNum(y) * RatDen(x), RatDen(x) * RatDen(y))
      [] {x.kind, y.kind} \subseteq {"Int", "Float"} /\ "Float" \in {x.kind, y.kind}
            /\ op = "-" ->
            NormFloat(RatNum(x) * RatDen(y) - RatNum(y) * RatDen(x), RatDen(x) * RatDen(y))
      [] {x.kind, y.kind} \subseteq {"Int", "Float"} /\ "Float" \in {x.kind, y.kind}
            /\ op = "*" ->
            NormFloat(RatNum(x) * RatNum(y), RatDen(x) * RatDen(y))
      [] {x.kind, y.kind} \subseteq {"Int", "Float"} /\ "Float" \in {x.kind, y.kind}
            /\ op = "/" ->
            NormFloat(RatNum(x) * RatDen(y), RatDen(x) * RatNum(y))

\* exact.Shift
Shift(x, op, s) ==
    CASE x.kind = "Unknown" -> x
      [] x.kind = "Int" /\ op = "<<" -> MakeBig(BigShl(x.int, s))
      [] x.kind = "Int" /\ op = ">>" -> MakeBig(BigShr(x.int, s))

\* exact.Compare
Compare(x, op, y) ==
    LET c == CASE x.kind = "Int" /\ y.kind = "Int" -> BigCmp(x.int, y.int)
               [] {x.kind, y.kind} \subseteq {"Int", "Float"} ->
                    LET d == RatNum(x) * RatDen(y) - RatNum(y) * RatDen(x)
                    IN IF d < 0 THEN -1 ELSE IF d > 0 THEN 1 ELSE 0
               [] op \in {"==", "!="} -> IF x = y THEN 0 ELSE 1
    IN CASE x.kind = "Unknown" \/ y.kind = "Unknown" -> FALSE
         [] op = "==" -> c = 0
         [] op = "!=" -> c # 0
         [] op = "<" -> c < 0
         [] op = "<=" -> c <= 0
         [] op = ">" -> c > 0
         [] op = ">=" -> c >= 0

-----------------------------------------------------------------------------
(* Operands, the checker's tables and its diagnostics *)

Operand(mode, typ, val, expr) == [mode |-> mode, typ |-> typ, val |-> val, expr |-> expr]

\* the state expr0 gives an operand before it dispatches
InvalidOperand == Operand("invalid", Typ("Invalid"), NoVal, 0)

\* operand.isNil
isNil(x) == x.mode = "constant" /\ x.val.kind = "Nil"

\* the part of the checker a rule reads and writes
Checker(u, n, e) == [untyped |-> u, notes |-> n, errs |-> e]

\* check.errorf, invalidOp, invalidArg, invalidAST: one more diagnostic
Report(ck, pos, msg) == [ck EXCEPT !.errs = Append(@, <<pos, msg>>)]

TablePut(t, e, info) == [n \in DOMAIN t \cup {e} |-> IF n = e THEN info ELSE t[n]]
TableDel(t, e) == [n \in DOMAIN t \ {e} |-> t[n]]

exprInfo(isLhs, typ, val) == [isLhs |-> isLhs, typ |-> typ, val |-> val]

\* Context.Expr: the client is told the type of node e
Notify(ck, e, typ) == [ck EXCEPT !.notes[e] = Append(@, typ)]

\* the context of the pass: int, uint and uintptr are 8 bytes wide
Ctxt == [wordSize |-> 8]

-----------------------------------------------------------------------------
(* The rules. Each takes the operand(s) and the checker's tables and gives  *)
(* the operand and the tables it leaves: [x |-> operand, ck |-> tables].    *)

Res(x, ck) == [x |-> x, ck |-> ck]

Invalidate(x) == [x EXCEPT !.mode = "invalid"]

isComparison(op) == op \in {"==", "!=", "<", "<=", ">", ">="}
isShift(op) == op \in {"<<", ">>"}

unaryOpPredicate(op, t) ==
    CASE op \in {"+", "-"} -> isNumeric(t)
      [] op = "^" -> isInteger(t)
      [] op = "!" -> isBoolean(t)

binaryOpPredicate(op, t) ==
    CASE op = "+" -> isNumeric(t) \/ isString(t)
      [] op \in {"-", "*", "/"} -> isNumeric(t)
      [] op \in {"%", "&", "|", "^", "&^"} -> isInteger(t)
      [] op \in {"&&", "||"} -> isBoolean(t)

UnaryOps == {"+", "-", "^", "!"}
BinaryOps == {"+", "-", "*", "/", "%", "&", "|", "^", "&^", "&&", "||"}

\* check.op with unaryOpPredicates: ok, and the tables with the diagnostic if not
opUnary(x, op, ck) ==
    IF op \in UnaryOps
    THEN IF ~unaryOpPredicate(op, x.typ)
         THEN [ok |-> FALSE, ck |-> Report(ck, x.expr, "operator not defined")]
         ELSE [ok |-> TRUE, ck |-> ck]
    ELSE [ok |-> FALSE, ck |-> Report(ck, x.expr, "unknown operator")]

\* check.op with binaryOpPredicates
opBinary(x, op, ck) ==
    IF op \in BinaryOps
    THEN IF ~binaryOpPredicate(op, x.typ)
         THEN [ok |-> FALSE, ck |-> Report(ck, x.expr, "operator not defined")]
         ELSE [ok |-> TRUE, ck |-> ck]
    ELSE [ok |-> FALSE, ck |-> Report(ck, x.expr, "unknown operator")]

\* a mutant of isRepresentable: the failure is reported and the operand kept
isRepresentableKeepsMode(x, typ, ck) ==
    IF x.mode # "constant" \/ isUntyped(typ) THEN Res(x, ck)
    ELSE IF ~isRepresentableConst(x.val, Ctxt, typ.kind)
         THEN Res(x, Report(ck, x.expr, "cannot be represented"))
         ELSE Res(x, ck)

isRepresentable(x, typ, ck) ==
    IF x.mode # "constant" \/ isUntyped(typ) THEN Res(x, ck)
    ELSE IF ~isRepresentableConst(x.val, Ctxt, typ.kind)
         THEN Res(Invalidate(x),
                  Report(ck, x.expr,
                         IF isNumeric(x.typ) /\ isNumeric(typ)
                         THEN "overflows" ELSE "cannot convert"))
         ELSE Res(x, ck)

\* the diagnostic of updateExprType
FinalTypeMsg == "shifted operand (final type) must be integer"

\* a mutant of updateEntry: the entry of a final type is removed silently
updateEntryForgets(ck, x, old, typ, final) ==
    IF ~final /\ isUntyped(typ)
    THEN [ck EXCEPT !.untyped = TablePut(@, x, [old EXCEPT !.typ = typ])]
    ELSE [ck EXCEPT !.untyped = TableDel(@, x)]

\* a mutant of updateEntry: an update that is not final clears the flag
updateEntryClearsLhs(ck, x, old, typ, final) ==
    IF ~final /\ isUntyped(typ)
    THEN [ck EXCEPT !.untyped = TablePut(@, x, exprInfo(FALSE, typ, old.val))]
    ELSE LET ck1 == [ck EXCEPT !.untyped = TableDel(@, x)]
         IN IF old.isLhs /\ ~isInteger(typ)
            THEN Report(ck1, x, FinalTypeMsg)
            ELSE Notify(ck1, x, typ)

\* the end of updateExprType for a tracked node x with entry old, after its
\* operands were updated: record the type, or remove the entry and notify
\* a mutant of updateEntry: a provisional type is notified as well
updateEntryNotifies(ck, x, old, typ, final) ==
    IF ~final /\ isUntyped(typ)
    THEN Notify([ck EXCEPT !.untyped = TablePut(@, x, [old EXCEPT !.typ = typ])], x, typ)
    ELSE LET ck1 == [ck EXCEPT !.untyped = TableDel(@, x)]
         IN IF old.isLhs /\ ~isInteger(typ)
            THEN Report(ck1, x, FinalTypeMsg)
            ELSE Notify(ck1, x, typ)

updateEntry(ck, x, old, typ, final) ==
    IF ~final /\ isUntyped(typ)
    THEN [ck EXCEPT !.untyped = TablePut(@, x, [old EXCEPT !.typ = typ])]
    ELSE LET ck1 == [ck EXCEPT !.untyped = TableDel(@, x)]
         IN IF old.isLhs /\ ~isInteger(typ)
            THEN Report(ck1, x, FinalTypeMsg)
            ELSE Notify(ck1, x, typ)

\* a mutant of updateExprType: the operands of a constant are updated too
RECURSIVE updateExprTypeOfConstants(_, _, _, _)
updateExprTypeOfConstants(ck, x, typ, final) ==
    IF x \notin DOMAIN ck.untyped THEN ck
    ELSE
    LET old == ck.untyped[x]
        e == nodes[x]
    IN CASE e.kind \in {"CallExpr", "Ident", "BasicLit", "SelectorExpr"} ->
                updateEntry(ck, x, old, typ, final)
         [] e.kind \in {"ParenExpr", "UnaryExpr"} ->
                updateEntry(updateExprTypeOfConstants(ck, e.X, typ, final),
                            x, old, typ, final)
         [] e.kind = "BinaryExpr" ->
                IF isComparison(e.op) THEN updateEntry(ck, x, old, typ, final)
                ELSE IF isShift(e.op)
                THEN updateEntry(updateExprTypeOfConstants(ck, e.X, typ, final),
                                 x, old, typ, final)
                ELSE updateEntry(
                        updateExprTypeOfConstants(
                            updateExprTypeOfConstants(ck, e.X, typ, final),
                            e.Y, typ, final),
                        x, old, typ, final)
         [] OTHER -> ck

RECURSIVE updateExprType(_, _, _, _)
updateExprType(ck, x, typ, final) ==
    IF x \notin DOMAIN ck.untyped THEN ck
    ELSE
    LET old == ck.untyped[x]
        e == nodes[x]
    IN CASE e.kind \in {"BadExpr", "FuncLit", "CompositeLit", "IndexExpr", "SliceExpr",
                        "TypeAssertExpr", "StarExpr", "KeyValueExpr", "ArrayType"} -> ck
         [] e.kind \in {"CallExpr", "Ident", "BasicLit", "SelectorExpr"} ->
                updateEntry(ck, x, old, typ, final)
         [] e.kind = "ParenExpr" ->
                updateEntry(updateExprType(ck, e.X, typ, final), x, old, typ, final)
         [] e.kind = "UnaryExpr" ->
                IF old.val # NoVal THEN updateEntry(ck, x, old, typ, final)
                ELSE updateEntry(updateExprType(ck, e.X, typ, final), x, old, typ, final)
         [] e.kind = "BinaryExpr" ->
                IF old.val # NoVal THEN updateEntry(ck, x, old, typ, final)
                ELSE IF isComparison(e.op) THEN updateEntry(ck, x, old, typ, final)
                ELSE IF isShift(e.op)
                THEN updateEntry(updateExprType(ck, e.X, typ, final), x, old, typ, final)
                ELSE updateEntry(
                        updateExprType(updateExprType(ck, e.X, typ, final),
                                       e.Y, typ, final),
                        x, old, typ, final)

\* the Error label of convertUntyped
convertError(x, ck) == Res(Invalidate(x), Report(ck, x.expr, "cannot convert"))

\* the end of convertUntyped for a typed target: x takes the type, which is final
convertFinish(x, target, ck) ==
    Res([x EXCEPT !.typ = target], updateExprType(ck, x.expr, target, TRUE))

\* convertUntyped for a typed basic target, after isRepresentable gave r
convertBasic(r, target) ==
    IF r.x.mode = "invalid" THEN r ELSE convertFinish(r.x, target, r.ck)

\* a mutant of convertUntyped: an untyped operand takes an untyped target of
\* any other rank
convertUntypedAnyRank(x, target, ck) ==
    IF x.mode = "invalid" \/ ~isUntyped(x.typ) THEN Res(x, ck)
    ELSE IF isUntyped(target)
    THEN IF isNumeric(x.typ) /\ isNumeric(target)
         THEN IF KindRank(x.typ.kind) # KindRank(target.kind)
              THEN Res([x EXCEPT !.typ = target],
                       updateExprType(ck, x.expr, target, FALSE))
              ELSE Res(x, ck)
         ELSE IF x.typ.kind # target.kind THEN convertError(x, ck)
         ELSE Res(x, ck)
    ELSE CASE target.tag = "None" -> Res(Invalidate(x), ck)
           [] target.tag = "Basic" -> convertBasic(isRepresentable(x, target, ck), target)
           [] target.tag = "Interface" ->
                IF ~isNil(x) /\ ~target.empty THEN convertError(x, ck)
                ELSE IF isNil(x) THEN convertFinish(x, Typ("UntypedNil"), ck)
                ELSE convertFinish(x, defaultType(x.typ), ck)
           [] target.tag \in {"Pointer", "Signature", "Slice", "Map", "Chan"} ->
                IF ~isNil(x) THEN convertError(x, ck)
                ELSE convertFinish(x, Typ("UntypedNil"), ck)
           [] OTHER -> convertError(x, ck)

\* a mutant of convertUntyped: nil takes the type of its target
convertUntypedNilTyped(x, target, ck) ==
    IF x.mode = "invalid" \/ ~isUntyped(x.typ) THEN Res(x, ck)
    ELSE IF isUntyped(target)
    THEN IF isNumeric(x.typ) /\ isNumeric(target)
         THEN IF KindRank(x.typ.kind) < KindRank(target.kind)
              THEN Res([x EXCEPT !.typ = target],
                       updateExprType(ck, x.expr, target, FALSE))
              ELSE Res(x, ck)
         ELSE IF x.typ.kind # target.kind THEN convertError(x, ck)
         ELSE Res(x, ck)
    ELSE CASE target.tag = "None" -> Res(Invalidate(x), ck)
           [] target.tag = "Basic" -> convertBasic(isRepresentable(x, target, ck), target)
           [] target.tag = "Interface" ->
                IF ~isNil(x) /\ ~target.empty THEN convertError(x, ck)
                ELSE IF isNil(x) THEN convertFinish(x, target, ck)
                ELSE convertFinish(x, defaultType(x.typ), ck)
           [] target.tag \in {"Pointer", "Signature", "Slice", "Map", "Chan"} ->
                IF ~isNil(x) THEN convertError(x, ck)
                ELSE convertFinish(x, target, ck)
           [] OTHER -> convertError(x, ck)

convertUntyped(x, target, ck) ==
    IF x.mode = "invalid" \/ ~isUntyped(x.typ) THEN Res(x, ck)
    ELSE IF isUntyped(target)
    THEN IF isNumeric(x.typ) /\ isNumeric(target)
         THEN IF KindRank(x.typ.kind) < KindRank(target.kind)
              THEN Res([x EXCEPT !.typ = target],
                       updateExprType(ck, x.expr, target, FALSE))
              ELSE Res(x, ck)
         ELSE IF x.typ.kind # target.kind THEN convertError(x, ck)
         ELSE Res(x, ck)
    ELSE CASE target.tag = "None" -> Res(Invalidate(x), ck)
           [] target.tag = "Basic" -> convertBasic(isRepresentable(x, target, ck), target)
           [] target.tag = "Interface" ->
                IF ~isNil(x) /\ ~target.empty THEN convertError(x, ck)
                ELSE IF isNil(x) THEN convertFinish(x, Typ("UntypedNil"), ck)
                ELSE convertFinish(x, defaultType(x.typ), ck)
           [] target.tag \in {"Pointer", "Signature", "Slice", "Map", "Chan"} ->
                IF ~isNil(x) THEN convertError(x, ck)
                ELSE convertFinish(x, Typ("UntypedNil"), ck)
           [] OTHER -> convertError(x, ck)

\* operand.isAssignableTo
isAssignableTo(x, T) ==
    IF x.mode = "invalid" \/ T = Typ("Invalid") THEN TRUE
    ELSE IF IsIdentical(x.typ, T) THEN TRUE
    ELSE IF T.tag = "Interface" /\ T.empty THEN TRUE
    ELSE IF isNil(x) THEN hasNil(T)
    ELSE IF isUntyped(x.typ)
    THEN CASE T.tag = "Basic" ->
                IF x.mode = "constant" THEN isRepresentableConst(x.val, Ctxt, T.kind)
                ELSE x.typ.kind = "UntypedBool" /\ isBoolean(T)
           [] OTHER -> FALSE
    ELSE FALSE

\* a mutant of comparison: the operands keep their provisional types
comparisonKeepsOperands(x, y, op, ck) ==
    LET valid ==
            /\ isAssignableTo(x, y.typ) \/ isAssignableTo(y, x.typ)
            /\ IF op \in {"==", "!="}
               THEN \/ isComparable(x.typ)
                    \/ isNil(x) /\ hasNil(y.typ)
                    \/ isNil(y) /\ hasNil(x.typ)
               ELSE isOrdered(x.typ)
    IN IF ~valid
       THEN Res(Invalidate(x), Report(ck, x.expr, "cannot compare"))
       ELSE IF x.mode = "constant" /\ y.mode = "constant"
       THEN Res([x EXCEPT !.val = MakeBool(Compare(x.val, op, y.val)),
                          !.typ = Typ("UntypedBool")], ck)
       ELSE Res([x EXCEPT !.mode = "value", !.typ = Typ("UntypedBool")], ck)

comparison(x, y, op, ck) ==
    LET valid ==
            /\ isAssignableTo(x, y.typ) \/ isAssignableTo(y, x.typ)
            /\ IF op \in {"==", "!="}
               THEN \/ isComparable(x.typ)
                    \/ isNil(x) /\ hasNil(y.typ)
                    \/ isNil(y) /\ hasNil(x.typ)
               ELSE isOrdered(x.typ)
    IN IF ~valid
       THEN Res(Invalidate(x), Report(ck, x.expr, "cannot compare"))
       ELSE IF x.mode = "constant" /\ y.mode = "constant"
       THEN Res([x EXCEPT !.val = MakeBool(Compare(x.val, op, y.val)),
                          !.typ = Typ("UntypedBool")], ck)
       ELSE Res([x EXCEPT !.mode = "value", !.typ = Typ("UntypedBool")],
                updateExprType(updateExprType(ck, x.expr, defaultType(x.typ), TRUE),
                               y.expr, defaultType(y.typ), TRUE))

stupidShift == 1024

\* a mutant of shiftFold: the count is not bounded
shiftFoldUnbounded(x, y, op, s, ck) ==
    IF ~s.ok
    THEN Res(Invalidate(x), Report(ck, y.expr, "stupid shift"))
    ELSE Res([x EXCEPT !.val = Shift(x.val, op, SmallInt(y.val))], ck)

\* shift, both operands constant: s is the count as a uint64
shiftFold(x, y, op, s, ck) ==
    IF ~s.ok \/ BigCmp(s.val, BigOf(stupidShift)) >= 0
    THEN Res(Invalidate(x), Report(ck, y.expr, "stupid shift"))
    ELSE Res([x EXCEPT !.val = Shift(x.val, op, SmallInt(y.val))], ck)

\* shift, both operands constant
shiftConstant(x, y, op, untypedx, ck) ==
    shiftFold(IF untypedx THEN [x EXCEPT !.typ = Typ("UntypedInt")] ELSE x,
              y, op, Uint64Val(y.val), ck)

\* shift, once the right operand is accepted
shiftChecked(x, y, op, untypedx, ck) ==
    IF x.mode = "constant" /\ y.mode = "constant"
    THEN shiftConstant(x, y, op, untypedx, ck)
    ELSE IF x.mode = "constant" /\ untypedx
    THEN CASE x.expr \in DOMAIN ck.untyped ->
            Res([x EXCEPT !.mode = "value"],
                [ck EXCEPT !.untyped[x.expr].isLhs = TRUE])
    ELSE IF ~isInteger(x.typ)
    THEN Res(Invalidate(x), Report(ck, x.expr, "shifted operand must be integer"))
    ELSE Res([x EXCEPT !.mode = "value"], ck)

\* shift, after an untyped right operand was converted to untyped int: r
shiftCount(x, r, op, untypedx) ==
    IF r.x.mode = "invalid" THEN Res(Invalidate(x), r.ck)
    ELSE shiftChecked(x, r.x, op, untypedx, r.ck)

shift(x, y, op, ck) ==
    IF ~isInteger(x.typ)
       /\ (~isUntyped(x.typ) \/ ~isRepresentableConst(x.val, Ctxt, "UntypedInt"))
    THEN Res(Invalidate(x), Report(ck, x.expr, "shifted operand must be integer"))
    ELSE IF isInteger(y.typ) /\ isUnsigned(y.typ)
    THEN shiftChecked(x, y, op, isUntyped(x.typ), ck)
    ELSE IF isUntyped(y.typ)
    THEN shiftCount(x, convertUntyped(y, Typ("UntypedInt"), ck), op, isUntyped(x.typ))
    ELSE Res(Invalidate(x),
             Report(ck, y.expr, "shift count must be unsigned integer"))

RECURSIVE unparen(_)
unparen(e) == IF nodes[e].kind = "ParenExpr" THEN unparen(nodes[e].X) ELSE e

\* the Error label of unary
unaryError(x, ck) == Res(Invalidate(x), ck)

\* unary for + - ^ !, after check.op gave o
unaryChecked(x, op, o) ==
    IF ~o.ok THEN unaryError(x, o.ck)
    ELSE IF x.mode = "constant"
    THEN isRepresentable(
            [x EXCEPT !.val = UnaryOp(op, x.val,
                                      IF isUnsigned(x.typ) THEN KindSize(Ctxt, x.typ)
                                      ELSE -1)],
            x.typ, o.ck)
    ELSE Res([x EXCEPT !.mode = "value"], o.ck)

\* unary for &: x1 is x, addressable if it is a composite literal
unaryAddr(x1, ck) ==
    IF x1.mode # "variable"
    THEN unaryError(x1, Report(ck, x1.expr, "cannot take address"))
    ELSE Res([x1 EXCEPT !.typ = Pointer(x1.typ)], ck)

unary(x, op, ck) ==
    CASE op = "&" ->
            unaryAddr(IF nodes[unparen(x.expr)].kind = "CompositeLit"
                      THEN [x EXCEPT !.mode = "variable"] ELSE x, ck)
      [] op = "<-" ->
            IF x.typ.tag # "Chan"
            THEN unaryError(x, Report(ck, x.expr, "cannot receive from non-channel"))
            ELSE IF x.typ.dir = "send"
            THEN unaryError(x, Report(ck, x.expr, "cannot receive from send-only channel"))
            ELSE Res([x EXCEPT !.mode = "valueok", !.typ = x.typ.elt], ck)
      [] OTHER -> unaryChecked(x, op, opUnary(x, op, ck))

\* the operator constant folding uses: / on integers is the truncated division
foldOp(op, typ) == IF op = "/" /\ isInteger(typ) THEN "/=" ELSE op

\* a mutant of binaryArith: a zero divisor is left to run time
binaryArithNoZeroCheck(x, y, op, ck) ==
    IF x.mode = "constant" /\ y.mode = "constant" /\ Sign(y.val) # 0
    THEN isRepresentable([x EXCEPT !.val = BinaryOp(x.val, foldOp(op, x.typ), y.val)],
                         x.typ, ck)
    ELSE Res([x EXCEPT !.mode = "value"], ck)

\* a mutant of binaryArith: the folded value is not checked against its type
binaryArithUnchecked(x, y, op, ck) ==
    IF op \in {"/", "%"} /\ y.mode = "constant" /\ Sign(y.val) = 0
    THEN Res(Invalidate(x), Report(ck, y.expr, "division by zero"))
    ELSE IF x.mode = "constant" /\ y.mode = "constant"
    THEN Res([x EXCEPT !.val = BinaryOp(x.val, foldOp(op, x.typ), y.val)], ck)
    ELSE Res([x EXCEPT !.mode = "value"], ck)

\* binary, for operands of identical types the operator is defined for
binaryArith(x, y, op, ck) ==
    IF op \in {"/", "%"} /\ y.mode = "constant" /\ Sign(y.val) = 0
    THEN Res(Invalidate(x), Report(ck, y.expr, "division by zero"))
    ELSE IF x.mode = "constant" /\ y.mode = "constant"
    THEN isRepresentable([x EXCEPT !.val = BinaryOp(x.val, foldOp(op, x.typ), y.val)],
                         x.typ, ck)
    ELSE Res([x EXCEPT !.mode = "value"], ck)

\* binary, after check.op gave o
binaryChecked(x, y, op, o) ==
    IF ~o.ok THEN Res(Invalidate(x), o.ck) ELSE binaryArith(x, y, op, o.ck)

\* binary, after y was converted to the type of x: ry
binaryConvertedY(x, ry, op) ==
    IF ry.x.mode = "invalid" THEN Res(Invalidate(x), ry.ck)
    ELSE IF isComparison(op) THEN comparison(x, ry.x, op, ry.ck)
    ELSE IF ~IsIdentical(x.typ, ry.x.typ)
    THEN Res(Invalidate(x),
             IF x.typ # Typ("Invalid") /\ ry.x.typ # Typ("Invalid")
             THEN Report(ry.ck, x.expr, "mismatched types")
             ELSE ry.ck)
    ELSE binaryChecked(x, ry.x, op, opBinary(x, op, ry.ck))

\* binary, after x was converted to the type of y: rx
binaryConvertedX(rx, y, op) ==
    IF rx.x.mode = "invalid" THEN rx
    ELSE binaryConvertedY(rx.x, convertUntyped(y, rx.x.typ, rx.ck), op)

\* a mutant of binary: an invalid right operand is not looked at
binaryInvalidUnseen(x, y, op, ck) ==
    IF x.mode = "invalid" THEN Res(x, ck)
    ELSE IF isShift(op) THEN shift(x, y, op, ck)
    ELSE binaryConvertedX(convertUntyped(x, y.typ, ck), y, op)

\* binary, after both operands were checked: x and y are their operands
binary(x, y, op, ck) ==
    IF x.mode = "invalid" THEN Res(x, ck)
    ELSE IF y.mode = "invalid" THEN Res([x EXCEPT !.mode = "invalid", !.expr = y.expr], ck)
    ELSE IF isShift(op) THEN shift(x, y, op, ck)
    ELSE binaryConvertedX(convertUntyped(x, y.typ, ck), y, op)

\* expr, exprWithHint: what a rule gets when it asks for the value of a node
\* rawExpr returned x for
expr(x, ck) ==
    CASE x.mode = "novalue" -> Res(Invalidate(x), Report(ck, x.expr, "used as value"))
      [] x.mode = "typexpr" -> Res(Invalidate(x), Report(ck, x.expr, "is not an expression"))
      [] OTHER -> Res(x, ck)

\* the end of expr0, at the Error label too: the operand's expression is e
\* (the label sets the mode of an operand that is invalid already)
expr0Done(r, e) == Res([r.x EXCEPT !.expr = e], r.ck)

\* expr0 for a parenthesized expression whose inner expression gave x
expr0Paren(e, x, ck) == expr0Done(Res(x, ck), e)

\* expr0 for a unary expression, after expr gave r0 for its operand
expr0UnaryOperand(e, op, r0) ==
    IF r0.x.mode = "invalid" THEN expr0Done(r0, e)
    ELSE expr0Done(unary(r0.x, op, r0.ck), e)

\* expr0 for a unary expression whose operand gave x
expr0Unary(e, op, x, ck) == expr0UnaryOperand(e, op, expr(x, ck))

\* expr0 for a binary expression, after expr gave x and ry for its operands
expr0BinaryY(e, op, x, ry) == expr0Done(binary(x, ry.x, op, ry.ck), e)

\* expr0 for a binary expression, after expr gave rx for its left operand
expr0BinaryOperands(e, op, rx, y) == expr0BinaryY(e, op, rx.x, expr(y, rx.ck))

\* expr0 for a binary expression whose operands gave x and y
expr0Binary(e, op, x, y, ck) == expr0BinaryOperands(e, op, expr(x, ck), y)

\* a mutant of rawExprRecord: an untyped expression is tracked and notified
rawExprRecordBoth(x, ck) ==
    LET typ == IF x.mode = "invalid" THEN Typ("Invalid") ELSE x.typ
        val == IF x.mode = "constant" THEN x.val ELSE NoVal
        notify == x.mode \notin {"invalid", "typexprn"}
        x1 == IF x.mode = "typexprn" THEN [x EXCEPT !.mode = "typexpr"] ELSE x
        ck1 == [ck EXCEPT !.notes = Append(@, <<>>)]
    IN IF isUntyped(typ)
       THEN Res(x1, Notify([ck1 EXCEPT !.untyped =
                               TablePut(@, x.expr, exprInfo(FALSE, typ, val))],
                           x.expr, typ))
       ELSE IF notify THEN Res(x1, Notify(ck1, x.expr, typ))
       ELSE Res(x1, ck1)

\* rawExpr after expr0: the expression x.expr is tracked while it is untyped,
\* or else the client is notified of its type
rawExprRecord(x, ck) ==
    LET typ == CASE x.mode = "invalid" -> Typ("Invalid")
                 [] x.mode = "novalue" -> [tag |-> "Tuple"]
                 [] OTHER -> x.typ
        val == IF x.mode = "constant" THEN x.val ELSE NoVal
        notify == x.mode \notin {"invalid", "typexprn"}
        x1 == IF x.mode = "typexprn" THEN [x EXCEPT !.mode = "typexpr"] ELSE x
        ck1 == [ck EXCEPT !.notes = Append(@, <<>>)]
    IN IF isUntyped(typ)
       THEN Res(x1, [ck1 EXCEPT !.untyped = TablePut(@, x.expr, exprInfo(FALSE, typ, val))])
       ELSE IF notify THEN Res(x1, Notify(ck1, x.expr, typ))
       ELSE Res(x1, ck1)

-----------------------------------------------------------------------------
(* The initial values of the three groups of variables *)

ExprInit ==
    /\ nodes = <<>>
    /\ opnd = <<>>
    /\ untyped = <<>>
    /\ notes = <<>>
    /\ errs = <<>>
    /\ stack = <<>>
    /\ done = FALSE
    /\ last = [rule |-> "none"]
    /\ funclist = [queue |-> <<>>, checked |-> <<>>]

FnInit == fn = [name |-> "none"]

LitInit == lit = [pc |-> "none"]

-----------------------------------------------------------------------------
(* The actions of expression checking *)

MaxNodes == 3

Node(kind, op, X, Y) == [kind |-> kind, op |-> op, X |-> X, Y |-> Y]

\* literals (x.setConst) and identifiers (check.ident) as expr0 leaves them
LitInt(n) == [kind |-> "BasicLit", mode |-> "constant", typ |-> Typ("UntypedInt"),
              val |-> MakeInt(n)]
LitFloat(n, d) == [kind |-> "BasicLit", mode |-> "constant", typ |-> Typ("UntypedFloat"),
                   val |-> NormFloat(n, d)]
LitString(str) == [kind |-> "BasicLit", mode |-> "constant", typ |-> Typ("UntypedString"),
                   val |-> MakeString(str)]
IdentVar(k) == [kind |-> "Ident", mode |-> "variable", typ |-> Typ(k), val |-> NoVal]
IdentConst(k, n) == [kind |-> "Ident", mode |-> "constant", typ |-> Typ(k),
                     val |-> MakeInt(n)]

Top == stack[Len(stack)]
Below == stack[Len(stack) - 1]
Tables == Checker(untyped, notes, errs)

\* the messages a rule added to the diagnostics
NewErrs(ck) == [i \in 1..(Len(ck.errs) - Len(errs)) |-> ck.errs[Len(errs) + i][2]]

\* the inputs on which shift reads a value that is not there: the operand
\* of a run-time value that is no integer, or a count that is no integer
shiftPanics(x, y) ==
    \/ ~isInteger(x.typ) /\ isUntyped(x.typ) /\ x.val = NoVal
    \/ /\ x.mode = "constant" /\ y.mode = "constant"
       /\ isInteger(x.typ) \/ x.val.kind = "Int"
       /\ isUntyped(y.typ) /\ y.val.kind \in {"Float", "Complex"}

\* rawExpr has returned for the new node e: rr is what it left, stk the nodes
\* that wait for a parent
Returned(rule, e, node, rr, stk) ==
    /\ nodes' = Append(nodes, node)
    /\ opnd' = Append(opnd, rr.x)
    /\ untyped' = rr.ck.untyped
    /\ notes' = rr.ck.notes
    /\ errs' = rr.ck.errs
    /\ stack' = stk
    /\ last' = [rule |-> rule, node |-> e, errs |-> NewErrs(rr.ck), x |-> rr.x]
    /\ UNCHANGED done

\* rawExpr returns for the new node e: r is what expr0 left
Return(rule, e, node, r, rest) ==
    Returned(rule, e, node, rawExprRecord(r.x, r.ck), Append(rest, e))

\* a literal or an identifier is checked, one of at most max nodes
LeafWithin(leaf, max) ==
    /\ ~done
    /\ Len(nodes) < max
    /\ LET e == Len(nodes) + 1
       IN Return("leaf", e, Node(leaf.kind, "", 0, 0),
                 Res(Operand(leaf.mode, leaf.typ, leaf.val, e), Tables), stack)
    /\ UNCHANGED <<fn, lit, funclist>>

CheckLeaf(leaf) == LeafWithin(leaf, MaxNodes)

\* (x) for the expression x on top of the stack
ParenWithin(max) ==
    /\ ~done
    /\ Len(nodes) < max
    /\ stack # <<>>
    /\ LET e == Len(nodes) + 1
       IN Return("paren", e, Node("ParenExpr", "", Top, 0),
                 expr0Paren(e, opnd[Top], Tables), SubSeq(stack, 1, Len(stack) - 1))
    /\ UNCHANGED <<fn, lit, funclist>>

CheckParen == ParenWithin(MaxNodes)

\* op x for the expression x on top of the stack
UnaryWithin(op, max) ==
    /\ ~done
    /\ Len(nodes) < max
    /\ stack # <<>>
    /\ LET e == Len(nodes) + 1
       IN Return("unary", e, Node("UnaryExpr", op, Top, 0),
                 expr0Unary(e, op, opnd[Top], Tables), SubSeq(stack, 1, Len(stack) - 1))
    /\ UNCHANGED <<fn, lit, funclist>>

CheckUnary(op) == UnaryWithin(op, MaxNodes)

\* x op y for the expressions x and y on top of the stack
BinaryWithin(op, max) ==
    /\ ~done
    /\ Len(nodes) < max
    /\ Len(stack) >= 2
    /\ ~(isShift(op) /\ shiftPanics(opnd[Below], opnd[Top]))
    /\ LET e == Len(nodes) + 1
       IN Return("binary", e, Node("BinaryExpr", op, Below, Top),
                 expr0Binary(e, op, opnd[Below], opnd[Top], Tables),
                 SubSeq(stack, 1, Len(stack) - 2))
    /\ UNCHANGED <<fn, lit, funclist>>

CheckBinary(op) == BinaryWithin(op, MaxNodes)

\* convertUntyped has returned r for the expression e on top of the stack
Converted(e, r) ==
    /\ untyped' = r.ck.untyped
    /\ notes' = r.ck.notes
    /\ errs' = r.ck.errs
    /\ last' = [rule |-> "convertUntyped", node |-> e, errs |-> NewErrs(r.ck), x |-> r.x]
    /\ stack' = SubSeq(stack, 1, Len(stack) - 1)
    /\ UNCHANGED <<nodes, opnd, done, fn, lit, funclist>>

\* the context of the expression on top uses it as a value of type target
Convert(target) ==
    /\ ~done
    /\ stack # <<>>
    /\ Converted(Top, convertUntyped(opnd[Top], target, Tables))

\* the end of the pass: the expressions still untyped get their final type
EndOfPass ==
    /\ ~done
    /\ done' = TRUE
    /\ untyped' = <<>>
    /\ notes' = [n \in DOMAIN notes |->
                    IF n \in DOMAIN untyped
                    THEN Append(notes[n], defaultType(untyped[n].typ))
                    ELSE notes[n]]
    /\ last' = [rule |-> "end", node |-> 0, errs |-> <<>>, x |-> InvalidOperand]
    /\ UNCHANGED <<nodes, opnd, errs, stack, fn, lit, funclist>>

Leaves == {LitInt(0), LitInt(1), LitFloat(3, 2), IdentVar("Uint"), IdentVar("Float64")}
SpecUnaryOps == {"-", "!"}
SpecBinaryOps == {"+", "<<", "==", "/", "%"}
Targets == {Typ("Int"), Typ("Float64"), Typ("UntypedFloat")}

Init == ExprInit /\ FnInit /\ LitInit

Next ==
    \/ \E leaf \in Leaves : CheckLeaf(leaf)
    \/ CheckParen
    \/ \E op \in SpecUnaryOps : CheckUnary(op)
    \/ \E op \in SpecBinaryOps : CheckBinary(op)
    \/ \E t \in Targets : Convert(t)
    \/ EndOfPass

Spec == Init /\ [][Next]_vars

-----------------------------------------------------------------------------
(* Properties of Spec *)

\* the diagnostic updateExprType reported for node n
ShiftLhsRejected(n) == \E i \in DOMAIN errs : errs[i] = <<n, FinalTypeMsg>>

\* C1: Context.Expr is invoked at most once for a node, and never for a node
\* that is still in the untyped table (rawExpr notifies only what it does not
\* track, updateExprType removes the entry before it notifies)
C1_NotifiedAtMostOnce ==
    \A n \in DOMAIN notes :
        /\ Len(notes[n]) <= 1
        /\ n \in DOMAIN untyped => notes[n] = <<>>

\* a non-constant shift and its left operand were both notified of the type
\* int by the updateExprType of a conversion
C1_Witness ==
    \E n \in DOMAIN nodes :
        /\ nodes[n].kind = "BinaryExpr" /\ nodes[n].op = "<<"
        /\ notes[n] = <<Typ("Int")>>
        /\ notes[nodes[n].X] = <<Typ("Int")>>

\* C2 as stated: at the end of the pass every node rawExpr returned an
\* operand for has been notified
C2_EveryNodeNotified == done => \A n \in DOMAIN nodes : notes[n] # <<>>

\* C2 amended: a node whose operand is invalid is never tracked nor notified;
\* a node whose operand is not invalid is tracked and not yet notified, or is
\* no longer tracked and then either notified once or rejected by
\* updateExprType as the left operand of a shift with a non-integer final type
C2_ValidNodesNotified ==
    \A n \in DOMAIN nodes :
        IF opnd[n].mode = "invalid"
        THEN n \notin DOMAIN untyped /\ notes[n] = <<>>
        ELSE IF n \in DOMAIN untyped
        THEN notes[n] = <<>> /\ ~ShiftLhsRejected(n)
        ELSE (Len(notes[n]) = 1) # ShiftLhsRejected(n)

\* a shift was notified of the type float64 and its left operand was rejected
C2_Witness ==
    \E n \in DOMAIN nodes :
        /\ nodes[n].kind = "BinaryExpr" /\ nodes[n].op = "<<"
        /\ notes[n] = <<Typ("Float64")>>
        /\ ShiftLhsRejected(nodes[n].X) /\ notes[nodes[n].X] = <<>>

C4_InvalidHasInvalidType ==
    \A n \in DOMAIN opnd : opnd[n].mode = "invalid" => opnd[n].typ = Typ("Invalid")

\* the right operand of the binary expression n is a constant equal to zero
ZeroDivisor(n) ==
    /\ nodes[n].kind = "BinaryExpr" /\ nodes[n].op \in {"/", "%"}
    /\ opnd[nodes[n].Y].mode = "constant"
    /\ Sign(opnd[nodes[n].Y].val) = 0

\* C8: a binary expression with / or % whose right operand is a constant
\* equal to zero gets an invalid operand
C8_ZeroDivisorInvalid ==
    \A n \in DOMAIN nodes : ZeroDivisor(n) => opnd[n].mode = "invalid"

\* a variable of type uint was divided by the literal 0
C8_Witness ==
    \E n \in DOMAIN nodes :
        /\ ZeroDivisor(n)
        /\ opnd[nodes[n].X].mode = "variable"
        /\ opnd[n].mode = "invalid"
        /\ \E i \in DOMAIN errs : errs[i] = <<nodes[n].Y, "division by zero">>

\* the untyped operand x can be held by the typed basic type t: a constant by
\* its value, any other operand by the kind of its type
RepresentableIn(x, t) ==
    IF x.mode = "constant" THEN isRepresentableConst(x.val, Ctxt, t.kind)
    ELSE CASE isBoolean(x.typ) -> isBoolean(t)
           [] isString(x.typ) -> isString(t)
           [] isNumeric(x.typ) -> isNumeric(t)
           [] OTHER -> FALSE

\* C19: an untyped operand that convertUntyped gave a typed basic type is
\* representable in that type; one that is not representable, constant or
\* not, is invalid after the conversion
C19_ConvertedIsRepresentable ==
    /\ last.rule = "convertUntyped"
    /\ opnd[last.node].mode # "invalid" /\ isUntyped(opnd[last.node].typ)
    /\ last.x.mode # "invalid"
    /\ isBasic(last.x.typ) /\ ~isUntyped(last.x.typ)
    => RepresentableIn(opnd[last.node], last.x.typ)

-----------------------------------------------------------------------------
(* SpecUntyped: expressions of untyped operands that are not constant       *)
(* (shifts of constants by variables, and sums, negations and parentheses   *)
(* of them), converted by their context to untyped and to typed targets     *)

MaxUntypedNodes == 5

LitRune(n) == [kind |-> "BasicLit", mode |-> "constant", typ |-> Typ("UntypedRune"),
               val |-> MakeInt(n)]

\* the literals 1, '\x03' and 2.5 and a variable of type uint
UntypedLeaves == {LitInt(1), LitRune(3), LitFloat(5, 2), IdentVar("Uint")}
UntypedTargets == {Typ("Int"), Typ("Float64"), Typ("UntypedInt"), Typ("UntypedFloat")}

\* a leaf is checked while at most one expression waits for a parent
UntypedLeaf(leaf) == Len(stack) < 2 /\ LeafWithin(leaf, MaxUntypedNodes)

\* the context of a shift, a sum or a parenthesized expression converts it
UntypedConvert(target) ==
    /\ stack # <<>>
    /\ nodes[Top].kind \notin {"BasicLit", "Ident"}
    /\ Convert(target)

NextUntyped ==
    \/ \E leaf \in UntypedLeaves : UntypedLeaf(leaf)
    \/ ParenWithin(MaxUntypedNodes)
    \/ \E op \in {"+", "<<"} : BinaryWithin(op, MaxUntypedNodes)
    \/ \E t \in UntypedTargets : UntypedConvert(t)

SpecUntyped == Init /\ [][NextUntyped]_vars

\* n is a shift of an untyped constant by an operand that is not constant
LhsShift(n) ==
    /\ nodes[n].kind = "BinaryExpr" /\ isShift(nodes[n].op)
    /\ opnd[nodes[n].X].mode = "constant" /\ isUntyped(opnd[nodes[n].X].typ)
    /\ opnd[nodes[n].Y].mode \notin {"constant", "invalid"}

\* the left operand of the shift n is tracked with the flag set and not
\* notified, or it was finalized: notified once of an integer type, or, with
\* the final type of the shift no integer type, rejected and not notified
LhsDeferred(n) ==
    LET x == nodes[n].X
    IN IF x \in DOMAIN untyped
       THEN untyped[x].isLhs /\ notes[x] = <<>> /\ ~ShiftLhsRejected(x)
       ELSE IF ShiftLhsRejected(x)
       THEN notes[x] = <<>> /\ Len(notes[n]) = 1 /\ ~isInteger(notes[n][1])
       ELSE Len(notes[x]) = 1 /\ isInteger(notes[x][1])

\* C14 as stated: for every shift of an untyped constant by an operand that
\* is not constant, the entry of the left operand stays live with the flag
\* set until it is finalized, and is then rejected or notified once
C14_LhsDeferred == \A n \in DOMAIN nodes : LhsShift(n) => LhsDeferred(n)

\* C14 amended: the same for the shifts that shift accepts
C14_AcceptedLhsDeferred ==
    \A n \in DOMAIN nodes : LhsShift(n) /\ opnd[n].mode # "invalid" => LhsDeferred(n)

\* C15: a step replaces the kind of an entry that stays in the untyped table
\* only by a numeric kind of a strictly higher rank, the kind replaced being
\* numeric too
C15_KindOnlyWidens ==
    [][\A n \in DOMAIN untyped \cap DOMAIN untyped' :
          untyped'[n].typ # untyped[n].typ =>
              /\ isNumeric(untyped[n].typ) /\ isNumeric(untyped'[n].typ)
              /\ KindRank(untyped[n].typ.kind) < KindRank(untyped'[n].typ.kind)]_vars

\* the entry of a shift of a rune has the kind untyped float, and so has the
\* entry of the rune
C15_Witness ==
    \E n \in DOMAIN untyped :
        /\ nodes[n].kind = "BinaryExpr" /\ isShift(nodes[n].op)
        /\ opnd[n].typ = Typ("UntypedRune") /\ untyped[n].typ = Typ("UntypedFloat")
        /\ nodes[n].X \in DOMAIN untyped
        /\ opnd[nodes[n].X].typ = Typ("UntypedRune")
        /\ untyped[nodes[n].X].typ = Typ("UntypedFloat")

\* the kind of the left operand of a shift was updated to untyped float by a
\* conversion that is not final, and the flag is still set
C14_Witness ==
    \E n \in DOMAIN nodes :
        /\ LhsShift(n) /\ opnd[n].mode = "value"
        /\ nodes[n].X \in DOMAIN untyped
        /\ untyped[nodes[n].X].isLhs
        /\ untyped[nodes[n].X].typ = Typ("UntypedFloat")

-----------------------------------------------------------------------------
(* SpecShift: shifts of constants and variables by counts around the bound *)

\* an identifier denoting a constant of kind k with the big value x
IdentBig(k, x) == [kind |-> "Ident", mode |-> "constant", typ |-> Typ(k),
                   val |-> MakeBig(x)]

ShiftLeaves ==
    {LitInt(0), LitInt(1), LitInt(1023), LitInt(1024), LitFloat(3, 2), LitFloat(2, 1),
     IdentConst("UntypedInt", -3), IdentConst("Int8", 1), IdentConst("Float64", 1),
     IdentConst("Uint", 1023), IdentConst("Uint", 1024), IdentConst("Int", 1024),
     IdentBig("UntypedInt", Pow2(64)), IdentVar("Uint")}
ShiftOps == {"<<", ">>"}

NextShift ==
    \/ \E leaf \in ShiftLeaves : CheckLeaf(leaf)
    \/ \E op \in ShiftOps : CheckBinary(op)

SpecShift == Init /\ [][NextShift]_vars

\* the diagnostics reported at node n
DiagsAt(n) == {errs[i][2] : i \in {j \in DOMAIN errs : errs[j][1] = n}}

\* node n is a shift whose operands are both constants
ConstShift(n) ==
    /\ nodes[n].kind = "BinaryExpr" /\ isShift(nodes[n].op)
    /\ opnd[nodes[n].X].mode = "constant"
    /\ opnd[nodes[n].Y].mode = "constant"

\* a constant left operand of integer type, or untyped with an integer value
LhsInteger(x) == isInteger(x.typ) \/ (isUntyped(x.typ) /\ x.val.kind = "Int")

\* a constant count of unsigned integer type, or untyped with an integer value
CountAccepted(y) ==
    \/ isInteger(y.typ) /\ isUnsigned(y.typ)
    \/ isUntyped(y.typ) /\ y.val.kind = "Int"

\* r is x shifted by s bits: for << the value times 2^s, for >> the floor of
\* the value by 2^s
IsShifted(r, x, op, s) ==
    IF op = "<<"
    THEN /\ BigShr(r, s) = x
         /\ BigSign(x) # 0 => BigBitLen(r) = BigBitLen(x) + s
         /\ BigSign(x) = 0 => r = BigZero
    ELSE /\ BigLeq(BigShl(r, s), x)
         /\ BigCmp(x, BigShl(BigAdd(r, BigOf(1)), s)) < 0

ConstantShiftResult(n, x, y, r) ==
    IF ~LhsInteger(x)
    THEN /\ r.mode = "invalid"
         /\ DiagsAt(nodes[n].X) = {"shifted operand must be integer"}
         /\ DiagsAt(nodes[n].Y) = {}
    ELSE IF ~CountAccepted(y)
    THEN /\ r.mode = "invalid"
         /\ DiagsAt(nodes[n].Y) = {"shift count must be unsigned integer"}
    ELSE IF BigSign(y.val.int) < 0 \/ BigCmp(y.val.int, BigOf(1024)) >= 0
    THEN /\ r.mode = "invalid"
         /\ DiagsAt(nodes[n].Y) = {"stupid shift"}
    ELSE /\ r.mode = "constant"
         /\ r.typ = (IF isUntyped(x.typ) THEN Typ("UntypedInt") ELSE x.typ)
         /\ r.val.kind = "Int"
         /\ IsShifted(r.val.int, x.val.int, nodes[n].op, Small(y.val.int))
         /\ DiagsAt(nodes[n].X) = {} /\ DiagsAt(nodes[n].Y) = {}

-----------------------------------------------------------------------------
(* SpecLit: indexedElts on array and slice literals. The loop takes one     *)
(* element per step, a keyed element in two: the key is checked as an       *)
(* expression (the call of check.expr in index), then index goes on and the *)
(* body of the loop follows. The values are variables of the element type,  *)
(* so that check.assignment accepts them.                                   *)

MaxElts == 3

\* what index returns, and the tables it leaves
IndexRes(i, ok, ck) == [i |-> i, ok |-> ok, ck |-> ck]

\* index for a non-negative constant: v is its value as an int64
indexBounded(v, length, pos, ck) ==
    IF ~v.ok \/ (length >= 0 /\ BigCmp(v.val, BigOf(length)) >= 0)
    THEN IndexRes(v.val, FALSE, Report(ck, pos, "index out of bounds"))
    ELSE IndexRes(v.val, TRUE, ck)

\* index, after convertUntyped gave r for the argument
indexConverted(r, length) ==
    IF r.x.mode = "invalid" THEN IndexRes(BigZero, FALSE, r.ck)
    ELSE IF ~isInteger(r.x.typ)
    THEN IndexRes(BigZero, FALSE, Report(r.ck, r.x.expr, "must be integer"))
    ELSE IF r.x.mode = "constant"
    THEN IF Sign(r.x.val) < 0
         THEN IndexRes(BigZero, FALSE, Report(r.ck, r.x.expr, "must not be negative"))
         ELSE indexBounded(Int64Val(r.x.val), length, r.x.expr, r.ck)
    ELSE IndexRes(BigOf(-1), TRUE, r.ck)

\* index, after expr gave rx for the argument
indexChecked(rx, length) ==
    indexConverted(convertUntyped(rx.x, Typ("Int"), rx.ck), length)

\* index for an argument rawExpr returned x for
index(x, length, ck) == indexChecked(expr(x, ck), length)

\* the end of an iteration: the value of the element was checked and left rr
indexedEltsValue(validIndex, idx, next, rr, rest) ==
    /\ Returned("element", Len(nodes) + 1, Node("Ident", "", 0, 0), rr, rest)
    /\ lit' = [lit EXCEPT !.pc = "elt",
                          !.i = @ + 1,
                          !.index = next,
                          !.max = IF BigCmp(next, @) > 0 THEN next ELSE @,
                          !.visited = IF validIndex THEN @ \cup {idx} ELSE @,
                          !.diags = Append(@, NewErrs(rr.ck))]
    /\ UNCHANGED <<fn, funclist>>

\* an iteration after the check for a duplicate: exprWithHint checks the value
indexedEltsVisited(validIndex, idx, ck, rest) ==
    indexedEltsValue(validIndex, idx, Wrap64(BigAdd(idx, BigOf(1))),
                     rawExprRecord(Operand("variable", Typ("Int"), NoVal, Len(nodes) + 1),
                                   ck),
                     rest)

\* an iteration once the index idx of the element at pos is determined
indexedEltsIndexed(validIndex, idx, pos, ck, rest) ==
    indexedEltsVisited(validIndex, idx,
                       IF validIndex /\ idx \in lit.visited
                       THEN Report(ck, pos, "duplicate index") ELSE ck,
                       rest)

\* an iteration for a keyed element, after index returned k for the key
indexedEltsKey(k, pos, rest) ==
    indexedEltsIndexed(k.ok, IF k.ok /\ BigSign(k.i) >= 0 THEN k.i ELSE lit.index,
                       pos, k.ck, rest)

\* the key of a keyed element is checked as an expression
LitKey ==
    /\ lit.pc = "elt"
    /\ lit.i <= Len(lit.elts)
    /\ lit.elts[lit.i].keyed
    /\ LET e == Len(nodes) + 1
           leaf == lit.elts[lit.i].key
       IN Return("key", e, Node(leaf.kind, "", 0, 0),
                 Res(Operand(leaf.mode, leaf.typ, leaf.val, e), Tables), stack)
    /\ lit' = [lit EXCEPT !.pc = "index"]
    /\ UNCHANGED <<fn, funclist>>

\* the rest of the iteration for a keyed element
LitKeyed ==
    /\ lit.pc = "index"
    /\ indexedEltsKey(index(opnd[Top], lit.length, Tables), Top,
                      SubSeq(stack, 1, Len(stack) - 1))

\* the iteration for a positional element
LitPositional ==
    /\ lit.pc = "elt"
    /\ lit.i <= Len(lit.elts)
    /\ ~lit.elts[lit.i].keyed
    /\ IF lit.length >= 0 /\ BigCmp(lit.index, BigOf(lit.length)) >= 0
       THEN indexedEltsIndexed(FALSE, lit.index, Len(nodes) + 1,
                               Report(Tables, Len(nodes) + 1, "index out of bounds"),
                               stack)
       ELSE indexedEltsIndexed(TRUE, lit.index, Len(nodes) + 1, Tables, stack)

\* indexedElts returns max
LitReturn ==
    /\ lit.pc = "elt"
    /\ lit.i > Len(lit.elts)
    /\ lit' = [lit EXCEPT !.pc = "done", !.res = lit.max]
    /\ UNCHANGED <<exprVars, fn>>

\* a mutant of compositeLitArray: the length is set for every array type
compositeLitArrayAlways(utyp, lens, openArray, n) ==
    [utyp |-> [utyp EXCEPT !.len = n], lens |-> Append(lens, n)]

\* expr0 for a composite literal of an array type, after indexedElts returned
\* n: the type as it is left, and the values its length was assigned (lens)
compositeLitArray(utyp, lens, openArray, n) ==
    IF openArray
    THEN [utyp |-> [utyp EXCEPT !.len = n], lens |-> Append(lens, n)]
    ELSE [utyp |-> utyp, lens |-> lens]

\* expr0 for a composite literal, after the elements: the type t is left
compositeLitDone(t) ==
    /\ Return("literal", Len(nodes) + 1, Node("CompositeLit", "", 0, 0),
              Res(Operand("value", t.utyp, NoVal, Len(nodes) + 1), Tables), stack)
    /\ lit' = [lit EXCEPT !.pc = "typed", !.utyp = t.utyp, !.lens = t.lens]
    /\ UNCHANGED <<fn, funclist>>

\* the end of expr0 for the literal: the operand is a value of its type
LitTyped ==
    /\ lit.pc = "done"
    /\ IF lit.utyp.tag = "Array"
       THEN compositeLitDone(compositeLitArray(lit.utyp, lit.lens, lit.open, lit.res))
       ELSE compositeLitDone([utyp |-> lit.utyp, lens |-> lit.lens])

\* the keys of the literals: constants in and out of the bounds, a variable
\* of type int and a variable of type float64
LitKeys ==
    {LitInt(0), LitInt(2), IdentConst("Int", -1), IdentBig("UntypedInt", MaxInt64),
     IdentVar("Int"), IdentVar("Float64")}
LitElts == {[keyed |-> FALSE]} \cup {[keyed |-> TRUE, key |-> k] : k \in LitKeys}
LitEltSeqs == UNION {[1..n -> LitElts] : n \in 0..MaxElts}
\* the types of the literals: []int, [...]int and [2]int
LitTypes ==
    {[utyp |-> Slice(Typ("Int")), open |-> FALSE, length |-> -1],
     [utyp |-> Array(BigOf(-1), Typ("Int")), open |-> TRUE, length |-> -1],
     [utyp |-> Array(BigOf(2), Typ("Int")), open |-> FALSE, length |-> 2]}

InitLit ==
    /\ ExprInit
    /\ FnInit
    /\ lit \in {[pc |-> "elt", elts |-> es, length |-> t.length, i |-> 1,
                  index |-> BigZero, max |-> BigZero, visited |-> {},
                  diags |-> <<>>, res |-> BigZero,
                  utyp |-> t.utyp, open |-> t.open, lens |-> <<>>] :
                    es \in LitEltSeqs, t \in LitTypes}

NextLit == LitKey \/ LitKeyed \/ LitPositional \/ LitReturn \/ LitTyped

SpecLit == InitLit /\ [][NextLit]_vars

\* the key of element e is a constant
ConstKey(e) == e.keyed /\ e.key.mode = "constant"

\* the constant keys of the elements are integers from 0 and below the length
ValidConstKeys(elts, length) ==
    \A i \in DOMAIN elts :
        ConstKey(elts[i]) =>
            /\ elts[i].key.val.kind = "Int"
            /\ BigSign(elts[i].key.val.int) >= 0
            /\ length >= 0 => BigCmp(elts[i].key.val.int, BigOf(length)) < 0

\* the indices of the elements from the i-th on as C9 and C10 describe them:
\* a constant key sets the running index r, any other element uses it (the
\* index of an element with a key that is no constant is not known), and the
\* running index is one more after every element
RECURSIVE ResolvedFrom(_, _, _)
ResolvedFrom(elts, i, r) ==
    IF i > Len(elts) THEN <<>>
    ELSE IF ConstKey(elts[i])
    THEN <<[known |-> TRUE, idx |-> elts[i].key.val.int]>>
         \o ResolvedFrom(elts, i + 1, BigAdd(elts[i].key.val.int, BigOf(1)))
    ELSE <<[known |-> ~elts[i].keyed, idx |-> r]>>
         \o ResolvedFrom(elts, i + 1, BigAdd(r, BigOf(1)))

Resolved(elts) == ResolvedFrom(elts, 1, BigZero)

\* one plus the greatest of the indices idx[i..], or m if that is greater
RECURSIVE OnePlusMaxFrom(_, _, _)
OnePlusMaxFrom(idx, i, m) ==
    IF i > Len(idx) THEN m
    ELSE IF BigCmp(BigAdd(idx[i].idx, BigOf(1)), m) > 0
    THEN OnePlusMaxFrom(idx, i + 1, BigAdd(idx[i].idx, BigOf(1)))
    ELSE OnePlusMaxFrom(idx, i + 1, m)

\* C9: for a literal of positional elements and elements with constant keys,
\* the keys valid, indexedElts returns one plus the maximum index referenced
C9_OnePlusMaxIndex ==
    lit.pc = "done"
        /\ (\A i \in DOMAIN lit.elts : lit.elts[i].keyed => ConstKey(lit.elts[i]))
        /\ ValidConstKeys(lit.elts, lit.length)
    => lit.res = OnePlusMaxFrom(Resolved(lit.elts), 1, BigZero)

\* C10: in a literal whose constant keys are valid, an element gets the
\* duplicate-index diagnostic exactly when an earlier element resolves to the
\* same index
C10_DuplicateIffSameIndex ==
    lit.pc = "done" /\ ValidConstKeys(lit.elts, lit.length)
    => \A j \in DOMAIN lit.elts :
          (\E d \in DOMAIN lit.diags[j] : lit.diags[j][d] = "duplicate index")
          <=> /\ Resolved(lit.elts)[j].known
              /\ \E i \in 1..(j - 1) : Resolved(lit.elts)[i] = Resolved(lit.elts)[j]

\* C11: the length of an open array type is -1 until the literal's elements
\* are all checked, is then assigned once, the length indexedElts returned,
\* and stays; the length of an array type declared with a length is not
\* assigned by the check of the literal
C11_OpenArrayLength ==
    lit.utyp.tag = "Array" =>
        IF lit.open
        THEN IF lit.pc = "typed"
             THEN lit.utyp.len = lit.res /\ lit.lens = <<lit.res>>
             ELSE lit.utyp.len = BigOf(-1) /\ lit.lens = <<>>
        ELSE lit.utyp.len = BigOf(lit.length) /\ lit.lens = <<>>

\* [...]int{2: v} was checked and its type has the length 3
C11_Witness ==
    /\ lit.pc = "typed" /\ lit.open
    /\ Len(lit.elts) = 1 /\ lit.elts[1].keyed /\ lit.elts[1].key = LitInt(2)
    /\ lit.utyp.len = BigOf(3)
    /\ opnd[Len(opnd)].typ = Array(BigOf(3), Typ("Int"))

-----------------------------------------------------------------------------
(* SpecMap: the element loop of a map literal. A key is checked as an       *)
(* expression in one step; the rest of the iteration (the assignment of the *)
(* key, the test for a duplicate, the value) is the next.                   *)

MaxPairs == 3

\* check.assignment, after convertUntyped gave r: may x be used as a T
assignmentConverted(r, T) ==
    [ok |-> r.x.mode # "invalid" /\ isAssignableTo(r.x, T), x |-> r.x, ck |-> r.ck]

\* check.assignment
assignment(x, T, ck) ==
    IF x.mode = "invalid" THEN [ok |-> FALSE, x |-> x, ck |-> ck]
    ELSE assignmentConverted(convertUntyped(x, T, ck), T)

\* visited[x.val]: a constant value as the key of a Go map
visitedHas(visited, val) == val \in visited

\* the end of an iteration: the locals of the loop
mapLitNext(ck, vis) ==
    lit' = [lit EXCEPT !.pc = "elt", !.i = @ + 1, !.visited = vis,
                       !.diags = Append(@, NewErrs(ck))]

\* continue: the iteration ends before the value is checked
mapLitContinue(ck, rest) ==
    /\ untyped' = ck.untyped
    /\ notes' = ck.notes
    /\ errs' = ck.errs
    /\ stack' = rest
    /\ mapLitNext(ck, lit.visited)
    /\ UNCHANGED <<nodes, opnd, done, last, fn, funclist>>

\* the end of an iteration, after check.assignment gave v for the value
mapLitAssigned(v, ck, vis, rest) ==
    /\ Returned("element", Len(nodes) + 1, Node("Ident", "", 0, 0), Res(v.x, ck), rest)
    /\ mapLitNext(ck, vis)
    /\ UNCHANGED <<fn, funclist>>

\* an iteration after exprWithHint gave rv for the value
mapLitValueChecked(v, vis, rest) ==
    mapLitAssigned(v, IF ~v.ok /\ v.x.mode # "invalid"
                      THEN Report(v.ck, v.x.expr, "cannot use as value in map literal")
                      ELSE v.ck,
                   vis, rest)

\* an iteration from the check of the value on: the value is a variable
mapLitValue(rv, vis, rest) ==
    mapLitValueChecked(assignment(rv.x, lit.utyp.elt, rv.ck), vis, rest)

\* a mutant of mapLitKeyAccepted: the keys are not recorded
mapLitKeyNotRecorded(a, rest) ==
    IF a.x.mode = "constant" /\ visitedHas(lit.visited, a.x.val)
    THEN mapLitContinue(Report(a.ck, a.x.expr, "duplicate key in map literal"), rest)
    ELSE mapLitValue(rawExprRecord(Operand("variable", lit.elts[lit.i].val, NoVal,
                                           Len(nodes) + 1), a.ck),
                     lit.visited, rest)

\* an iteration after the key was found assignable: a constant key is looked
\* up among the constant keys visited
mapLitKeyAccepted(a, rest) ==
    IF a.x.mode = "constant" /\ visitedHas(lit.visited, a.x.val)
    THEN mapLitContinue(Report(a.ck, a.x.expr, "duplicate key in map literal"), rest)
    ELSE mapLitValue(rawExprRecord(Operand("variable", lit.elts[lit.i].val, NoVal,
                                           Len(nodes) + 1), a.ck),
                     IF a.x.mode = "constant"
                     THEN lit.visited \cup {a.x.val} ELSE lit.visited,
                     rest)

\* an iteration after check.assignment gave a for the key
mapLitKeyChecked(a, rest) ==
    IF ~a.ok
    THEN mapLitContinue(IF a.x.mode # "invalid"
                        THEN Report(a.ck, a.x.expr, "cannot use as key in map literal")
                        ELSE a.ck,
                        rest)
    ELSE mapLitKeyAccepted(a, rest)

\* an iteration after check.expr gave rx for the key
mapLitKey(rx, rest) == mapLitKeyChecked(assignment(rx.x, lit.utyp.key, rx.ck), rest)

\* the key of the element is checked as an expression
MapKey ==
    /\ lit.pc = "elt"
    /\ lit.i <= Len(lit.elts)
    /\ lit.elts[lit.i].keyed
    /\ LET e == Len(nodes) + 1
           leaf == lit.elts[lit.i].key
       IN Return("key", e, Node(leaf.kind, "", 0, 0),
                 Res(Operand(leaf.mode, leaf.typ, leaf.val, e), Tables), stack)
    /\ lit' = [lit EXCEPT !.pc = "key"]
    /\ UNCHANGED <<fn, funclist>>

\* the rest of the iteration
MapKeyed ==
    /\ lit.pc = "key"
    /\ mapLitKey(expr(opnd[Top], Tables), SubSeq(stack, 1, Len(stack) - 1))

\* the iteration for an element without a key: it is not checked
MapMissingKey ==
    /\ lit.pc = "elt"
    /\ lit.i <= Len(lit.elts)
    /\ ~lit.elts[lit.i].keyed
    /\ mapLitContinue(Report(Tables, Len(nodes) + 1, "missing key in map literal"), stack)

\* the end of expr0 for the literal: the operand is a value of its type
MapTyped ==
    /\ lit.pc = "elt"
    /\ lit.i > Len(lit.elts)
    /\ compositeLitDone([utyp |-> lit.utyp, lens |-> lit.lens])

\* the keys: the constants 1, 2 and 1.5, a variable of type int and a
\* constant of type int8 and value 1
MapKeys ==
    {LitInt(1), LitInt(2), LitFloat(3, 2), IdentVar("Int"), IdentConst("Int8", 1)}
\* the elements: a value of the element type with or without a key, and a
\* value of another type
MapElts ==
    {[keyed |-> FALSE]}
    \cup {[keyed |-> TRUE, key |-> k, val |-> Typ("Int")] : k \in MapKeys}
    \cup {[keyed |-> TRUE, key |-> LitInt(1), val |-> Typ("Float64")]}
MapEltSeqs == UNION {[1..n -> MapElts] : n \in 0..MaxPairs}
\* map[int]int, map[float64]int and map[interface{}]int
MapTypes == {Map(k, Typ("Int")) : k \in {Typ("Int"), Typ("Float64"), Interface(TRUE)}}

InitMap ==
    /\ ExprInit
    /\ FnInit
    /\ lit \in {[pc |-> "elt", elts |-> es, i |-> 1, visited |-> {}, diags |-> <<>>,
                  utyp |-> t, lens |-> <<>>] : es \in MapEltSeqs, t \in MapTypes}

NextMap == MapKey \/ MapKeyed \/ MapMissingKey \/ MapTyped

SpecMap == InitMap /\ [][NextMap]_vars

\* the diagnostics of the j-th element have one for a duplicate key
DuplicateKeyAt(j) ==
    \E d \in DOMAIN lit.diags[j] : lit.diags[j][d] = "duplicate key in map literal"

\* the key of element e is assignable to the key type T: the types are
\* identical, or T is the empty interface, or the key is an untyped constant
\* representable as a T
KeyAssignable(e, T) ==
    /\ e.keyed
    /\ \/ e.key.typ = T
       \/ T = Interface(TRUE)
       \/ /\ isUntyped(e.key.typ) /\ e.key.mode = "constant" /\ isBasic(T)
          /\ isRepresentableConst(e.key.val, Ctxt, T.kind)

\* an element before the j-th has an assignable constant key of the value of
\* the j-th key
EarlierEqualKey(j) ==
    \E i \in 1..(j - 1) :
        /\ ConstKey(lit.elts[i]) /\ KeyAssignable(lit.elts[i], lit.utyp.key)
        /\ lit.elts[i].key.val = lit.elts[j].key.val

\* the literal's operand is a value of the declared map type
MapLitTyped ==
    lit.pc = "typed" =>
        /\ opnd[Len(opnd)].mode = "value" /\ opnd[Len(opnd)].typ = lit.utyp
        /\ nodes[Len(nodes)].kind = "CompositeLit"

\* C12 as stated: a key gets the duplicate-key diagnostic exactly when it is
\* a constant whose value is that of an earlier accepted constant key, and the
\* literal is a value of the map type
C12_DuplicateKeyIff ==
    /\ \A j \in DOMAIN lit.diags :
          DuplicateKeyAt(j) <=> ConstKey(lit.elts[j]) /\ EarlierEqualKey(j)
    /\ MapLitTyped

\* C12 amended: the same for a key that is assignable to the key type; a key
\* that is not assignable never gets the duplicate-key diagnostic
C12_AssignableDuplicateKeyIff ==
    /\ \A j \in DOMAIN lit.diags :
          DuplicateKeyAt(j) <=>
              /\ ConstKey(lit.elts[j]) /\ KeyAssignable(lit.elts[j], lit.utyp.key)
              /\ EarlierEqualKey(j)
    /\ MapLitTyped

\* map[int]int{1: v, 1: w, 2: u} was checked: the second key is a duplicate,
\* the third is not
C12_Witness ==
    /\ lit.pc = "typed" /\ lit.utyp = Map(Typ("Int"), Typ("Int"))
    /\ Len(lit.elts) = 3
    /\ \A j \in 1..3 : lit.elts[j].keyed
    /\ lit.elts[1].key = LitInt(1) /\ lit.elts[2].key = LitInt(1)
    /\ lit.elts[3].key = LitInt(2)
    /\ ~DuplicateKeyAt(1) /\ DuplicateKeyAt(2) /\ ~DuplicateKeyAt(3)
    /\ opnd[Len(opnd)].typ = lit.utyp

-----------------------------------------------------------------------------
(* SpecIndex: index and slice expressions on strings, arrays, pointers to   *)
(* arrays, slices and maps. The base and the index arguments present are    *)
(* checked first, as expressions of their own; expr0 checks no argument of  *)
(* a base it rejects, so such an expression has none in the model.          *)

MaxIndexNodes == 4

\* the base of an index or slice expression as the switch on its type leaves
\* it: whether it is accepted, its length if known, the operand
BaseRes(valid, length, x) == [valid |-> valid, length |-> length, x |-> x]

\* a mutant of indexBase: an indexed constant string stays a constant
indexBaseKeepsMode(x) ==
    CASE isString(x.typ) ->
            BaseRes(TRUE, IF x.mode = "constant" THEN Len(x.val.s) ELSE -1,
                    [x EXCEPT !.typ = Typ("Uint8")])
      [] x.typ.tag = "Array" ->
            BaseRes(TRUE, Small(x.typ.len),
                    [x EXCEPT !.mode = IF @ # "variable" THEN "value" ELSE @,
                              !.typ = x.typ.elt])
      [] x.typ.tag = "Pointer" /\ x.typ.base.tag = "Array" ->
            BaseRes(TRUE, Small(x.typ.base.len),
                    [x EXCEPT !.mode = "variable", !.typ = x.typ.base.elt])
      [] x.typ.tag = "Slice" ->
            BaseRes(TRUE, -1, [x EXCEPT !.mode = "variable", !.typ = x.typ.elt])
      [] OTHER -> BaseRes(FALSE, -1, x)

\* expr0, IndexExpr: the switch on the type of the base (not a map)
indexBase(x) ==
    CASE isString(x.typ) ->
            BaseRes(TRUE, IF x.mode = "constant" THEN Len(x.val.s) ELSE -1,
                    [x EXCEPT !.mode = "value", !.typ = Typ("Uint8")])
      [] x.typ.tag = "Array" ->
            BaseRes(TRUE, Small(x.typ.len),
                    [x EXCEPT !.mode = IF @ # "variable" THEN "value" ELSE @,
                              !.typ = x.typ.elt])
      [] x.typ.tag = "Pointer" /\ x.typ.base.tag = "Array" ->
            BaseRes(TRUE, Small(x.typ.base.len),
                    [x EXCEPT !.mode = "variable", !.typ = x.typ.base.elt])
      [] x.typ.tag = "Slice" ->
            BaseRes(TRUE, -1, [x EXCEPT !.mode = "variable", !.typ = x.typ.elt])
      [] OTHER -> BaseRes(FALSE, -1, x)

\* a mutant of sliceBase: the length is the length of the base
sliceBaseOwnLength(x) ==
    CASE isString(x.typ) ->
            BaseRes(TRUE, IF x.mode = "constant" THEN Len(x.val.s) ELSE -1,
                    [x EXCEPT !.mode = "value",
                              !.typ = IF @.kind = "UntypedString" THEN Typ("String") ELSE @])
      [] x.typ.tag = "Array" ->
            IF x.mode # "variable" THEN BaseRes(FALSE, Small(x.typ.len), x)
            ELSE BaseRes(TRUE, Small(x.typ.len), [x EXCEPT !.typ = Slice(x.typ.elt)])
      [] x.typ.tag = "Pointer" /\ x.typ.base.tag = "Array" ->
            BaseRes(TRUE, Small(x.typ.base.len),
                    [x EXCEPT !.mode = "variable", !.typ = Slice(x.typ.base.elt)])
      [] x.typ.tag = "Slice" -> BaseRes(TRUE, -1, [x EXCEPT !.mode = "variable"])
      [] OTHER -> BaseRes(FALSE, -1, x)

\* expr0, SliceExpr: the switch on the type of the base; the length is one
\* more than the length of the base
sliceBase(x) ==
    CASE isString(x.typ) ->
            BaseRes(TRUE, IF x.mode = "constant" THEN Len(x.val.s) + 1 ELSE -1,
                    [x EXCEPT !.mode = "value",
                              !.typ = IF @.kind = "UntypedString" THEN Typ("String") ELSE @])
      [] x.typ.tag = "Array" ->
            IF x.mode # "variable" THEN BaseRes(FALSE, Small(x.typ.len) + 1, x)
            ELSE BaseRes(TRUE, Small(x.typ.len) + 1, [x EXCEPT !.typ = Slice(x.typ.elt)])
      [] x.typ.tag = "Pointer" /\ x.typ.base.tag = "Array" ->
            BaseRes(TRUE, Small(x.typ.base.len) + 1,
                    [x EXCEPT !.mode = "variable", !.typ = Slice(x.typ.base.elt)])
      [] x.typ.tag = "Slice" -> BaseRes(TRUE, -1, [x EXCEPT !.mode = "variable"])
      [] OTHER -> BaseRes(FALSE, -1, x)

\* the base is one expr0 checks index arguments for
Indexable(x) == x.mode # "invalid" /\ (x.typ.tag = "Map" \/ indexBase(x).valid)
Sliceable(x) == x.mode # "invalid" /\ sliceBase(x).valid

\* a mutant of indexMapKey: the element of a map is a plain value
indexMapKeyValue(x, a) ==
    IF ~a.ok
    THEN Res(Invalidate(x),
             IF a.x.mode # "invalid"
             THEN Report(a.ck, a.x.expr, "cannot use as map index") ELSE a.ck)
    ELSE Res([x EXCEPT !.mode = "value", !.typ = x.typ.elt], a.ck)

\* expr0, IndexExpr on a map, after check.assignment gave a for the key
indexMapKey(x, a) ==
    IF ~a.ok
    THEN Res(Invalidate(x),
             IF a.x.mode # "invalid"
             THEN Report(a.ck, a.x.expr, "cannot use as map index") ELSE a.ck)
    ELSE Res([x EXCEPT !.mode = "valueok", !.typ = x.typ.elt], a.ck)

\* expr0, IndexExpr on a map, after expr gave rk for the key
indexMap(x, rk) == indexMapKey(x, assignment(rk.x, x.typ.key, rk.ck))

\* expr0, IndexExpr, after index checked the argument: ok to continue
indexArgument(x, k) == Res(x, k.ck)

\* expr0, IndexExpr on a base that is valid, with the argument y
expr0IndexArg(e, x, y, ck) ==
    IF x.typ.tag = "Map" THEN expr0Done(indexMap(x, expr(y, ck)), e)
    ELSE expr0Done(indexArgument(indexBase(x).x, index(y, indexBase(x).length, ck)), e)

\* expr0, IndexExpr or SliceExpr on a base that is invalid or not accepted
expr0BadBase(e, rx, msg) ==
    IF rx.x.mode = "invalid" THEN expr0Done(rx, e)
    ELSE expr0Done(Res(Invalidate(rx.x), Report(rx.ck, rx.x.expr, msg)), e)

\* a mutant of sliceInverted: the bounds are compared the other way round
sliceInvertedLess(x, lo, hi, pos, ck) ==
    IF BigSign(lo) >= 0 /\ BigSign(hi) >= 0 /\ BigCmp(lo, hi) < 0
    THEN Res(x, Report(ck, pos, "inverted slice range"))
    ELSE Res(x, ck)

\* expr0, SliceExpr: the bounds lo and hi are compared
sliceInverted(x, lo, hi, pos, ck) ==
    IF BigSign(lo) >= 0 /\ BigSign(hi) >= 0 /\ BigCmp(lo, hi) > 0
    THEN Res(x, Report(ck, pos, "inverted slice range"))
    ELSE Res(x, ck)

\* the bound index returned for an argument, or the default d
sliceBound(k, d) == IF k.ok /\ BigSign(k.i) >= 0 THEN k.i ELSE d

\* expr0, SliceExpr, after index checked the high bound
sliceHighChecked(x, lo, k, pos) == sliceInverted(x, lo, sliceBound(k, BigOf(-1)), pos, k.ck)

\* expr0, SliceExpr from the high bound on: hi is its operand, if there is one
sliceHigh(x, length, lo, pos, hasHigh, hi, ck) ==
    IF hasHigh THEN sliceHighChecked(x, lo, index(hi, length, ck), pos)
    ELSE sliceInverted(x, lo, IF length >= 0 THEN BigOf(length) ELSE BigOf(-1), pos, ck)

\* expr0, SliceExpr, after index checked the low bound
sliceLowChecked(x, length, k, pos, hasHigh, hi) ==
    sliceHigh(x, length, sliceBound(k, BigZero), pos, hasHigh, hi, k.ck)

\* expr0, SliceExpr on a base that is valid: lo and hi are the operands of
\* the bounds present
expr0SliceBounds(x, length, hasLow, lo, hasHigh, hi, ck) ==
    IF hasLow
    THEN sliceLowChecked(x, length, index(lo, length, ck), lo.expr, hasHigh, hi)
    ELSE sliceHigh(x, length, BigZero, 0, hasHigh, hi, ck)

IndexNode(X, Index) == [kind |-> "IndexExpr", op |-> "", X |-> X, Y |-> Index]
SliceNode(X, Low, High) ==
    [kind |-> "SliceExpr", op |-> "", X |-> X, Y |-> Low, High |-> High]

\* a leaf: an identifier or a call of the given mode and type
LeafOf(kind, mode, typ) == [kind |-> kind, mode |-> mode, typ |-> typ, val |-> NoVal]

\* a literal or an identifier is checked
IndexLeaf(leaf) ==
    /\ Len(nodes) < MaxIndexNodes
    /\ Len(stack) < 3
    /\ LET e == Len(nodes) + 1
       IN Return("leaf", e, Node(leaf.kind, "", 0, 0),
                 Res(Operand(leaf.mode, leaf.typ, leaf.val, e), Tables), stack)
    /\ UNCHANGED <<fn, lit, funclist>>

\* x[i] for the base x and the argument i on top of the stack
CheckIndex ==
    /\ Len(nodes) < MaxIndexNodes
    /\ Len(stack) >= 2
    /\ Indexable(expr(opnd[Below], Tables).x)
    /\ LET e == Len(nodes) + 1
       IN Return("index", e, IndexNode(Below, Top),
                 expr0IndexArg(e, opnd[Below], opnd[Top], Tables),
                 SubSeq(stack, 1, Len(stack) - 2))
    /\ UNCHANGED <<fn, lit, funclist>>

\* x[i] for a base x that cannot be indexed
CheckIndexBad ==
    /\ Len(nodes) < MaxIndexNodes
    /\ stack # <<>>
    /\ ~Indexable(expr(opnd[Top], Tables).x)
    /\ LET e == Len(nodes) + 1
       IN Return("index", e, IndexNode(Top, 0),
                 expr0BadBase(e, expr(opnd[Top], Tables), "cannot index"),
                 SubSeq(stack, 1, Len(stack) - 1))
    /\ UNCHANGED <<fn, lit, funclist>>

\* the operand of the k-th node from the top of the stack, if it is there
FromTop(k) == IF k < Len(stack) THEN opnd[stack[Len(stack) - k]] ELSE InvalidOperand
NodeFromTop(k) == stack[Len(stack) - k]

\* x[lo:hi] for the base x and the bounds present on top of the stack
CheckSlice(hasLow, hasHigh) ==
    LET n == (IF hasLow THEN 1 ELSE 0) + (IF hasHigh THEN 1 ELSE 0)
        e == Len(nodes) + 1
    IN /\ Len(nodes) < MaxIndexNodes
       /\ Len(stack) >= n + 1
       /\ Sliceable(expr(FromTop(n), Tables).x)
       /\ Return("slice", e,
                 SliceNode(NodeFromTop(n),
                           IF hasLow THEN NodeFromTop(n - 1) ELSE 0,
                           IF hasHigh THEN NodeFromTop(0) ELSE 0),
                 expr0Done(expr0SliceBounds(sliceBase(FromTop(n)).x,
                                            sliceBase(FromTop(n)).length,
                                            hasLow, FromTop(n - 1), hasHigh, FromTop(0),
                                            Tables), e),
                 SubSeq(stack, 1, Len(stack) - n - 1))
       /\ UNCHANGED <<fn, lit, funclist>>

\* x[...] for a base x that cannot be sliced
CheckSliceBad ==
    /\ Len(nodes) < MaxIndexNodes
    /\ stack # <<>>
    /\ ~Sliceable(expr(opnd[Top], Tables).x)
    /\ LET e == Len(nodes) + 1
       IN Return("slice", e, SliceNode(Top, 0, 0),
                 expr0BadBase(e, expr(opnd[Top], Tables), "cannot slice"),
                 SubSeq(stack, 1, Len(stack) - 1))
    /\ UNCHANGED <<fn, lit, funclist>>

\* the bases: the constant "ab", a string, an array [2]int that is
\* addressable and one that is not, a pointer to it, a slice, a map
IndexBases ==
    {LitString("ab"), IdentVar("String"),
     LeafOf("Ident", "variable", Array(BigOf(2), Typ("Int"))),
     LeafOf("CallExpr", "value", Array(BigOf(2), Typ("Int"))),
     LeafOf("Ident", "variable", Pointer(Array(BigOf(2), Typ("Int")))),
     LeafOf("Ident", "variable", Slice(Typ("Int"))),
     LeafOf("Ident", "variable", Map(Typ("Int"), Typ("Int")))}
\* the arguments: constants in and out of the bounds, a variable, 1.5
IndexArgs ==
    {LitInt(1), LitInt(2), LitInt(3), IdentConst("Int", -1), IdentVar("Int"),
     LitFloat(3, 2)}

NextIndex ==
    \/ \E leaf \in IndexBases \cup IndexArgs : IndexLeaf(leaf)
    \/ CheckIndex
    \/ CheckIndexBad
    \/ \E hasLow, hasHigh \in BOOLEAN : CheckSlice(hasLow, hasHigh)
    \/ CheckSliceBad
    \/ \E op \in {"-"} : CheckUnary(op)
    \/ \E op \in {"+", "==", "<<"} : CheckBinary(op)

SpecIndex == Init /\ [][NextIndex]_vars

\* the length of the base x of a slice expression, where its type or its
\* constant value tells it
BaseLength(x) ==
    CASE isString(x.typ) /\ x.mode = "constant" -> [known |-> TRUE, v |-> BigOf(Len(x.val.s))]
      [] x.typ.tag = "Array" -> [known |-> TRUE, v |-> x.typ.len]
      [] x.typ.tag = "Pointer" /\ x.typ.base.tag = "Array" ->
            [known |-> TRUE, v |-> x.typ.base.len]
      [] OTHER -> [known |-> FALSE, v |-> BigZero]

\* the bound of a slice expression that the node m gives, d if there is none:
\* known if m is a constant with an integer value
StaticBound(m, d) ==
    IF m = 0 THEN d
    ELSE IF opnd[m].mode = "constant" /\ opnd[m].val.kind = "Int"
    THEN [known |-> TRUE, v |-> opnd[m].val.int]
    ELSE [known |-> FALSE, v |-> BigZero]

\* the same, known only if the constant is one index accepts for a base of
\* length len: of an integer or untyped type, not negative, an int64, and at
\* most the length of the base where that is known
AcceptedBound(m, d, len) ==
    IF m = 0 THEN d
    ELSE [known |-> /\ StaticBound(m, d).known
                    /\ isInteger(opnd[m].typ) \/ isUntyped(opnd[m].typ)
                    /\ BigSign(opnd[m].val.int) >= 0
                    /\ BigCmp(opnd[m].val.int, MaxInt64) <= 0
                    /\ len.known => BigCmp(opnd[m].val.int, len.v) <= 0,
          v |-> StaticBound(m, d).v]

IsSlice(n) == nodes[n].kind = "SliceExpr" /\ Sliceable(opnd[nodes[n].X])

InvertedAt(n) ==
    \E i \in DOMAIN errs : errs[i] = <<nodes[n].Y, "inverted slice range">>

\* low and high are known and low > high
Inverted(low, high) == low.known /\ high.known /\ BigCmp(low.v, high.v) > 0

\* the type of a slice expression on the base x
SliceResultType(x) ==
    CASE isString(x.typ) -> defaultType(x.typ)
      [] x.typ.tag = "Array" -> Slice(x.typ.elt)
      [] x.typ.tag = "Pointer" -> Slice(x.typ.base.elt)
      [] OTHER -> x.typ

\* the slice expression n has a valid operand of the type of the result
SliceTyped(n) ==
    /\ opnd[n].mode \in {"value", "variable"}
    /\ opnd[n].typ = SliceResultType(opnd[nodes[n].X])

\* C13 as stated: a slice expression on a sliceable base gets the
\* inverted-range diagnostic exactly when both bounds are statically known
\* (constants, or the defaults 0 and the known length) and low > high, and
\* it has a valid operand of the result type
C13_InvertedIffKnown ==
    \A n \in DOMAIN nodes :
        IsSlice(n) =>
            /\ InvertedAt(n) <=>
                  Inverted(StaticBound(nodes[n].Y, [known |-> TRUE, v |-> BigZero]),
                           StaticBound(nodes[n].High, BaseLength(opnd[nodes[n].X])))
            /\ SliceTyped(n)

\* C13 amended: the same for bounds that index accepts; a constant bound that
\* is negative or beyond the known length is not compared
C13_InvertedIffAccepted ==
    \A n \in DOMAIN nodes :
        IsSlice(n) =>
            /\ InvertedAt(n) <=>
                  Inverted(AcceptedBound(nodes[n].Y, [known |-> TRUE, v |-> BigZero],
                                         BaseLength(opnd[nodes[n].X])),
                           AcceptedBound(nodes[n].High, BaseLength(opnd[nodes[n].X]),
                                         BaseLength(opnd[nodes[n].X])))
            /\ SliceTyped(n)

\* a[2:1] for a variable a of type [2]int: the range is reported as inverted
\* and the expression is a variable of type []int
C13_Witness ==
    \E n \in DOMAIN nodes :
        /\ IsSlice(n) /\ InvertedAt(n)
        /\ opnd[nodes[n].X].typ = Array(BigOf(2), Typ("Int"))
        /\ nodes[n].Y # 0 /\ opnd[nodes[n].Y].val = MakeInt(2)
        /\ nodes[n].High # 0 /\ opnd[nodes[n].High].val = MakeInt(1)
        /\ opnd[n].mode = "variable" /\ opnd[n].typ = Slice(Typ("Int"))

\* the expression n gives a result at run time: an index or slice expression
\* on a constant string, or a unary or binary expression (a comparison and
\* a shift too) with an operand that is not constant
RunTime(n) ==
    \/ /\ nodes[n].kind \in {"IndexExpr", "SliceExpr"}
       /\ opnd[nodes[n].X].mode = "constant" /\ isString(opnd[nodes[n].X].typ)
    \/ /\ nodes[n].kind = "UnaryExpr"
       /\ opnd[nodes[n].X].mode # "constant"
    \/ /\ nodes[n].kind = "BinaryExpr"
       /\ opnd[nodes[n].X].mode # "constant" \/ opnd[nodes[n].Y].mode # "constant"

\* C16: an operand rawExpr returned with the mode constant has a value and
\* a basic type; an expression with a result at run time is not a constant:
\* its mode is value, or invalid if it was rejected
C16_ConstantHasValue ==
    \A n \in DOMAIN opnd :
        /\ opnd[n].mode = "constant" =>
              /\ opnd[n].val # NoVal
              /\ isBasic(opnd[n].typ) /\ opnd[n].typ # Typ("Invalid")
        /\ RunTime(n) => opnd[n].mode \in {"value", "invalid"}

\* "ab"[1], the constant string indexed by a constant, is a value of type byte
C16_Witness ==
    \E n \in DOMAIN nodes :
        /\ RunTime(n) /\ nodes[n].kind = "IndexExpr"
        /\ opnd[nodes[n].X].val = MakeString("ab")
        /\ opnd[nodes[n].Y].mode = "constant" /\ opnd[nodes[n].Y].val = MakeInt(1)
        /\ opnd[n].mode = "value" /\ opnd[n].typ = Typ("Uint8")

\* the kind of base of an index expression, by the type of the operand b
BaseKind(b) ==
    CASE b.mode = "invalid" -> "invalid"
      [] isString(b.typ) -> "string"
      [] b.typ.tag = "Array" -> "array"
      [] b.typ.tag = "Pointer" /\ b.typ.base.tag = "Array" -> "pointer"
      [] b.typ.tag = "Slice" -> "slice"
      [] b.typ.tag = "Map" -> "map"
      [] OTHER -> "other"

BoundsMessages == {"index out of bounds", "must not be negative", "must be integer"}

\* what C26 states of the operand r of b[k], a step that reported errors
IndexResult(b, k, r, errors, ck) ==
    CASE BaseKind(b) = "string" -> r.mode = "value" /\ r.typ = Typ("Uint8")
      [] BaseKind(b) = "array" ->
            /\ r.mode = IF b.mode = "variable" THEN "variable" ELSE "value"
            /\ r.typ = b.typ.elt
      [] BaseKind(b) = "pointer" -> r.mode = "variable" /\ r.typ = b.typ.base.elt
      [] BaseKind(b) = "slice" -> r.mode = "variable" /\ r.typ = b.typ.elt
      [] BaseKind(b) = "map" ->
            /\ \A i \in DOMAIN errors : errors[i] \notin BoundsMessages
            /\ IF assignment(expr(k, ck).x, b.typ.key, expr(k, ck).ck).ok
               THEN r.mode = "valueok" /\ r.typ = b.typ.elt
               ELSE r.mode = "invalid"
      [] OTHER -> r.mode = "invalid"

\* C26: the operand of an index expression by the type of its base: a byte
\* value for a string; the element for an array, a variable iff the array
\* is one; the element as a variable for a pointer to an array and a slice;
\* for a map the element with mode valueok if check.assignment accepts the
\* key for the key type, whatever its value, and invalid if not; invalid
\* for any other base
C26_IndexResult ==
    [][/\ CheckIndex =>
             IndexResult(expr(opnd[Below], Tables).x, opnd[Top], last'.x, last'.errs,
                         expr(opnd[Below], Tables).ck)
       /\ CheckIndexBad =>
             /\ BaseKind(expr(opnd[Top], Tables).x) \in {"invalid", "other"}
             /\ last'.x.mode = "invalid"]_vars

\* m[-1] for a map m of type map[int]int is an int with mode valueok
C26_Witness ==
    /\ last.rule = "index"
    /\ opnd[nodes[last.node].X].typ = Map(Typ("Int"), Typ("Int"))
    /\ opnd[nodes[last.node].Y].val = MakeInt(-1)
    /\ last.x.mode = "valueok"
    /\ last.x.typ = Typ("Int")
    /\ last.errs = <<>>

-----------------------------------------------------------------------------
(***************************************************************************)
(* SpecArg: index and slice expressions whose arguments may be constants   *)
(* that are no int64: 1 << 70 and the uint64 1 << 63, next to the bases    *)
(* and the arguments of SpecIndex and their negations.                     *)
(***************************************************************************)

ArgLeaves ==
    IndexArgs \cup {IdentBig("UntypedInt", BigShl(BigOf(1), 70)),
                    IdentBig("Uint64", Pow2(63))}

NextArg ==
    \/ \E leaf \in IndexBases \cup ArgLeaves : IndexLeaf(leaf)
    \/ CheckIndex
    \/ CheckIndexBad
    \/ \E hasLow, hasHigh \in BOOLEAN : CheckSlice(hasLow, hasHigh)
    \/ CheckSliceBad
    \/ \E op \in {"-"} : CheckUnary(op)

SpecArg == Init /\ [][NextArg]_vars

\* the lengths index is called with: -1 for a length that is not known
IndexLengths == {-1, 0, 1, 2, 3}

\* a is a constant of an integer type with the integer value a.val.int
ConstantIndex(a) == a.mode = "constant" /\ isInteger(a.typ) /\ a.val.kind = "Int"

\* i is not negative, and below the length if that is known
WithinLength(i, length) ==
    BigSign(i) >= 0 /\ (length < 0 \/ BigCmp(i, BigOf(length)) < 0)

\* what index gives as r for the argument with the operand a and the
\* length: a constant is accepted iff it is within the length, and fits if
\* fits is asked for; an integer that is not constant is accepted as -1
IndexAccepts(a, r, length, fits) ==
    /\ ConstantIndex(a) =>
          /\ r.ok <=> /\ WithinLength(a.val.int, length)
                      /\ fits => BigCmp(a.val.int, MaxInt64) <= 0
          /\ r.ok => r.i = a.val.int
    /\ a.mode \in {"value", "variable"} /\ isInteger(a.typ) =>
          r.ok /\ r.i = BigOf(-1)

\* the same of index for the argument on top of the stack and every length
IndexAcceptsTop(fits) ==
    stack # <<>> =>
        \A length \in IndexLengths :
            IndexAccepts(expr(opnd[Top], Tables).x, index(opnd[Top], length, Tables),
                         length, fits)

OutOfBoundsAt(m) == \E i \in DOMAIN errs : errs[i] = <<m, "index out of bounds">>

\* the argument m is a constant index accepts for a length that is not known
BoundConstant(m) ==
    /\ m # 0
    /\ ConstantIndex(opnd[m])
    /\ BigSign(opnd[m].val.int) >= 0
    /\ BigCmp(opnd[m].val.int, MaxInt64) <= 0

\* a constant equal to the known length of the base is out of bounds as an
\* index and within bounds as a bound of a slice expression, where only a
\* constant beyond the length is out of bounds
LengthIsSliceBound ==
    \A n \in DOMAIN nodes :
        LET b == opnd[nodes[n].X]
        IN /\ /\ nodes[n].kind = "IndexExpr"
              /\ nodes[n].Y # 0
              /\ b.typ.tag # "Map"
              /\ BaseLength(b).known
              /\ BoundConstant(nodes[n].Y)
              => (OutOfBoundsAt(nodes[n].Y) <=>
                     BigCmp(opnd[nodes[n].Y].val.int, BaseLength(b).v) >= 0)
           /\ IsSlice(n) /\ BaseLength(b).known =>
                 \A m \in {nodes[n].Y, nodes[n].High} :
                     BoundConstant(m) =>
                         (OutOfBoundsAt(m) <=>
                             BigCmp(opnd[m].val.int, BaseLength(b).v) > 0)

-----------------------------------------------------------------------------
(* SpecFunc: function literals among other expressions. The checker keeps  *)
(* the bodies to check in a list (check.funclist of check.go): the queue   *)
(* of the model, with the bodies already checked beside it. A body is      *)
(* named by the node of its literal; a literal met inside a body, which is *)
(* no node of the first traversal, by a negative number.                   *)
(***************************************************************************)
MaxFuncNodes == 4

Tasks(fl) == fl.checked \o fl.queue

\* check.later: the body is appended to the list, with its rank of arrival
later(fl, sig, body) ==
    [fl EXCEPT !.queue = Append(@, [sig |-> sig, body |-> body, rank |-> Len(Tasks(fl))])]

\* the function literal forgets its body
expr0FuncLitDropsBody(e, ok, ck, fl) ==
    IF ok
    THEN [x |-> Operand("value", Signature, NoVal, e), ck |-> ck, funclist |-> fl]
    ELSE [x |-> Operand("invalid", Typ("Invalid"), NoVal, e),
          ck |-> Report(ck, e, "invalid function literal"), funclist |-> fl]

\* expr0 on the function literal e; ok: its type denotes a signature
expr0FuncLit(e, ok, ck, fl) ==
    IF ok
    THEN [x |-> Operand("value", Signature, NoVal, e), ck |-> ck,
          funclist |-> later(fl, Signature, e)]
    ELSE [x |-> Operand("invalid", Typ("Invalid"), NoVal, e),
          ck |-> Report(ck, e, "invalid function literal"), funclist |-> fl]

\* the loop over the list takes the body at its head and checks it; inner:
\* the body holds a function literal, which is put on the list in its turn
funcBody(fl, inner) ==
    LET rest == [queue |-> Tail(fl.queue), checked |-> Append(fl.checked, Head(fl.queue))]
    IN IF inner THEN later(rest, Signature, 0 - Len(Tasks(fl))) ELSE rest

\* a function literal is checked
CheckFuncLit(ok) ==
    /\ ~done
    /\ Len(nodes) < MaxFuncNodes
    /\ LET e == Len(nodes) + 1
           r == expr0FuncLit(e, ok, Tables, funclist)
       IN /\ Return("funclit", e, Node("FuncLit", "", 0, 0), r, stack)
          /\ funclist' = r.funclist
    /\ UNCHANGED <<fn, lit>>

\* after the first traversal, the next body of the list is checked
CheckFuncBody(inner) ==
    /\ done
    /\ funclist.queue # <<>>
    /\ inner => Len(Tasks(funclist)) < MaxFuncNodes
    /\ funclist' = funcBody(funclist, inner)
    /\ last' = [rule |-> "funcBody", node |-> Head(funclist.queue).body,
                errs |-> <<>>, x |-> InvalidOperand]
    /\ UNCHANGED <<nodes, opnd, untyped, notes, errs, stack, done, fn, lit>>

FuncLeaves == {IdentVar("Int"), LitInt(1)}

NextFunc ==
    \/ \E leaf \in FuncLeaves : LeafWithin(leaf, MaxFuncNodes)
    \/ \E ok \in BOOLEAN : CheckFuncLit(ok)
    \/ ParenWithin(MaxFuncNodes)
    \/ BinaryWithin("==", MaxFuncNodes)
    \/ EndOfPass
    \/ \E inner \in BOOLEAN : CheckFuncBody(inner)

SpecFunc == Init /\ [][NextFunc]_vars

\* the tasks for the body of the literal n
TasksOf(n) == {i \in DOMAIN Tasks(funclist) : Tasks(funclist)[i].body = n}

\* C17: no body is checked before the first traversal is over; a function
\* literal with a valid signature is a value of the signature type and has
\* exactly one task, with that signature, and any other literal has none;
\* the tasks are listed, and checked, in the order the literals were met
C17_BodiesDeferred ==
    /\ ~done => funclist.checked = <<>>
    /\ \A n \in DOMAIN nodes :
          nodes[n].kind = "FuncLit" =>
             IF opnd[n].mode # "invalid"
             THEN /\ opnd[n].mode = "value"
                  /\ opnd[n].typ = Signature
                  /\ Cardinality(TasksOf(n)) = 1
                  /\ \A i \in TasksOf(n) : Tasks(funclist)[i].sig = opnd[n].typ
             ELSE TasksOf(n) = {}
    /\ \A i, j \in DOMAIN Tasks(funclist) :
          i < j => /\ Tasks(funclist)[i].rank < Tasks(funclist)[j].rank
                   /\ Tasks(funclist)[i].body > 0 /\ Tasks(funclist)[j].body > 0
                         => Tasks(funclist)[i].body < Tasks(funclist)[j].body

\* two literals were met, the second in a comparison; both bodies are
\* checked, the first one first, and a literal of the first body waits
C17_Witness ==
    /\ done
    /\ Len(funclist.checked) = 2
    /\ funclist.checked[1].body < funclist.checked[2].body
    /\ nodes[funclist.checked[1].body].kind = "FuncLit"
    /\ nodes[funclist.checked[2].body].kind = "FuncLit"
    /\ Len(funclist.queue) = 1

-----------------------------------------------------------------------------
(* SpecBinary: binary expressions whose operands may be invalid: sums,     *)
(* quotients, comparisons and shifts of constants, variables, a call       *)
(* without a result and the binary expressions below them                  *)

MaxBinaryNodes == 5

BinaryLeaves ==
    {LitInt(0), LitInt(1), LitFloat(3, 2), IdentVar("Uint"), IdentVar("Float64"),
     LeafOf("CallExpr", "novalue", Typ("Invalid"))}

InvalidOperandOps == {"+", "/", "==", "<<"}

BinaryLeaf(leaf) ==
    /\ Len(stack) < 3
    /\ LeafWithin(leaf, MaxBinaryNodes)

NextBinary ==
    \/ \E leaf \in BinaryLeaves : BinaryLeaf(leaf)
    \/ \E op \in InvalidOperandOps : BinaryWithin(op, MaxBinaryNodes)

SpecBinary == Init /\ [][NextBinary]_vars

\* what check.expr reports for the operand rawExpr returned as x
ExprErrs(x) ==
    CASE x.mode = "novalue" -> <<"used as value">>
      [] x.mode = "typexpr" -> <<"is not an expression">>
      [] OTHER -> <<>>

\* check.expr leaves the operand rawExpr returned as x invalid
NoOperand(x) == x.mode \in {"invalid", "novalue", "typexpr"}

Messages(errors) == {errors[i] : i \in DOMAIN errors}

-----------------------------------------------------------------------------
(* SpecNil: nil and other untyped operands (constants, comparisons, and    *)
(* these in parentheses) converted by their context to pointer, function,  *)
(* slice, map, channel and interface types                                 *)

MaxNilNodes == 3

IdentNil == [kind |-> "Ident", mode |-> "constant", typ |-> Typ("UntypedNil"), val |-> NilVal]

NilLeaves == {IdentNil, LitInt(1), LitString("a"), IdentVar("Uint")}

NilTargets ==
    {Pointer(Typ("Int")), Signature, Slice(Typ("Int")), Map(Typ("Int"), Typ("Int")),
     Chan("both", Typ("Int")), Interface(TRUE), Interface(FALSE)}

NilLeaf(leaf) ==
    /\ Len(stack) < 2
    /\ LeafWithin(leaf, MaxNilNodes)

NextNil ==
    \/ \E leaf \in NilLeaves : NilLeaf(leaf)
    \/ ParenWithin(MaxNilNodes)
    \/ BinaryWithin("==", MaxNilNodes)
    \/ \E target \in NilTargets : Convert(target)

SpecNil == Init /\ [][NextNil]_vars

\* the expression n has got its final type typ: it is no longer in the table
\* of untyped expressions and typ is the last type recorded for it
FinalizedAs(n, typ) ==
    /\ n \notin DOMAIN untyped'
    /\ notes'[n] # <<>>
    /\ notes'[n][Len(notes'[n])] = typ

\* C20: convertUntyped of an untyped operand to a pointer, function, slice,
\* map, channel or interface type: nil keeps the type untyped nil, which
\* becomes the final type of its expression; any other operand takes its
\* default type for the empty interface and is invalid for the other targets
C20_NilStaysUntyped ==
    [][\A target \in NilTargets :
          /\ Convert(target)
          /\ opnd[Top].mode # "invalid" /\ isUntyped(opnd[Top].typ)
          => IF isNil(opnd[Top])
             THEN /\ last'.x.mode = "constant"
                  /\ last'.x.typ = Typ("UntypedNil")
                  /\ last'.x.typ # target
                  /\ FinalizedAs(Top, Typ("UntypedNil"))
                  /\ last'.errs = <<>>
             ELSE IF target = Interface(TRUE)
             THEN /\ last'.x.mode = opnd[Top].mode
                  /\ last'.x.typ = defaultType(opnd[Top].typ)
             ELSE last'.x.mode = "invalid"]_vars

\* (nil) was converted and is finalized as untyped nil, parentheses and all
C20_Witness ==
    /\ last.rule = "convertUntyped"
    /\ nodes[last.node].kind = "ParenExpr"
    /\ isNil(opnd[last.node])
    /\ last.x.typ = Typ("UntypedNil")
    /\ DOMAIN untyped = {}
    /\ notes[last.node] = <<Typ("UntypedNil")>>
    /\ notes[nodes[last.node].X] = <<Typ("UntypedNil")>>

-----------------------------------------------------------------------------
(* SpecCompare: comparisons of constants, typed and untyped, variables,    *)
(* nil and shifts by a variable, and the comparisons of these              *)

MaxCompareNodes == 5

CompareLeaves ==
    {LitInt(1), LitFloat(3, 2), IdentConst("Int", 2), IdentVar("Uint"),
     IdentNil, LeafOf("Ident", "variable", Pointer(Typ("Int")))}

CompareOps == {"==", "<", "<<"}

CompareLeaf(leaf) ==
    /\ Len(stack) < 3
    /\ LeafWithin(leaf, MaxCompareNodes)

NextCompare ==
    \/ \E leaf \in CompareLeaves : CompareLeaf(leaf)
    \/ ParenWithin(MaxCompareNodes)
    \/ \E op \in CompareOps : BinaryWithin(op, MaxCompareNodes)

SpecCompare == Init /\ [][NextCompare]_vars

\* the operand o of a comparison that left the tables ck1 for ck2 has got
\* its final type: it is not tracked, and if it was, its default type is
\* the type its expression was last notified of
Materialized(o, ck1, ck2) ==
    /\ o.expr \notin DOMAIN ck2.untyped
    /\ o.expr \in DOMAIN ck1.untyped =>
          /\ Len(ck2.notes[o.expr]) = Len(ck1.notes[o.expr]) + 1
          /\ ck2.notes[o.expr][Len(ck2.notes[o.expr])] = defaultType(o.typ)

\* what C21 states of comparison(x, y, op, ck), which gave r
ComparisonYields(x, y, ck, r) ==
    r.x.mode # "invalid" =>
       /\ r.x.typ = Typ("UntypedBool")
       /\ IF x.mode = "constant" /\ y.mode = "constant"
          THEN /\ r.x.mode = "constant"
               /\ r.x.val.kind = "Bool"
               /\ r.ck = ck
          ELSE /\ r.x.mode = "value"
               /\ Materialized(x, ck, r.ck)
               /\ Materialized(y, ck, r.ck)

\* binary on the operands x and y up to its call of comparison, after the
\* conversions gave cx and cy
ComparisonCalled(x, y, cx, cy, op, e) ==
    /\ x.mode # "invalid" /\ y.mode # "invalid"
    /\ cx.x.mode # "invalid" /\ cy.x.mode # "invalid"
    => LET r == comparison(cx.x, cy.x, op, cy.ck)
       IN /\ ComparisonYields(cx.x, cy.x, cy.ck, r)
          /\ last'.x = [r.x EXCEPT !.expr = e]

ComparisonOf(x, y, cx, op, e) ==
    ComparisonCalled(x, y, cx, convertUntyped(y, cx.x.typ, cx.ck), op, e)

\* C21: a comparison that is accepted is an untyped bool: a constant if both
\* operands are constants, and then no table is touched; otherwise a value,
\* and both operands leave the table of untyped expressions, notified of
\* their default types
C21_ComparisonResult ==
    [][\A op \in CompareOps :
          isComparison(op) /\ BinaryWithin(op, MaxCompareNodes) =>
             ComparisonOf(opnd[Below], opnd[Top],
                          convertUntyped(opnd[Below], opnd[Top].typ, Tables),
                          op, Len(nodes) + 1)]_vars

\* (1 << u) < 1 is a value of type untyped bool; the shift, its left operand
\* and the constant 1 are of type int
C21_Witness ==
    /\ last.rule = "binary"
    /\ nodes[last.node].op = "<"
    /\ nodes[nodes[last.node].X].op = "<<"
    /\ opnd[nodes[last.node].Y].mode = "constant"
    /\ opnd[nodes[last.node].Y].typ = Typ("UntypedInt")
    /\ last.x.mode = "value" /\ last.x.typ = Typ("UntypedBool")
    /\ DOMAIN untyped = {last.node}
    /\ notes[nodes[last.node].X] = <<Typ("Int")>>
    /\ notes[nodes[last.node].Y] = <<Typ("Int")>>
    /\ notes[nodes[nodes[last.node].X].X] = <<Typ("Int")>>

-----------------------------------------------------------------------------
(* SpecFold: arithmetic on constants of the types int8 and uint8 at the    *)
(* ends of their ranges, on untyped constants and on an untyped constant   *)
(* beyond 64 bits. The model multiplies and divides values below 2^30.     *)

MaxFoldNodes == 4

FoldLeaves ==
    {IdentConst("Int8", 100), IdentConst("Int8", -128), IdentConst("Int8", -1),
     IdentConst("Int8", 7), IdentConst("Uint8", 200), IdentConst("Uint8", 3),
     LitInt(7), LitInt(2), IdentBig("UntypedInt", BigShl(BigOf(1), 70))}

FoldBinaryOps == {"+", "-", "*", "/", "%"}
FoldUnaryOps == {"+", "-", "^"}

SmallConst(x) == x.mode = "constant" /\ x.val.kind = "Int" => IsSmall(x.val.int)

FoldLeaf(leaf) ==
    /\ Len(stack) < 2
    /\ LeafWithin(leaf, MaxFoldNodes)

FoldBinary(op) ==
    /\ Len(stack) >= 2
    /\ op \in {"*", "/", "%"} => SmallConst(opnd[Below]) /\ SmallConst(opnd[Top])
    /\ BinaryWithin(op, MaxFoldNodes)

NextFold ==
    \/ \E leaf \in FoldLeaves : FoldLeaf(leaf)
    \/ \E op \in FoldUnaryOps : UnaryWithin(op, MaxFoldNodes)
    \/ \E op \in FoldBinaryOps : FoldBinary(op)

SpecFold == Init /\ [][NextFold]_vars

\* the quotient of a by b # 0 that is rounded towards zero
Truncated(a, b) ==
    CHOOSE q \in (0 - Abs(a))..Abs(a) :
        LET r == a - q * b
        IN Abs(r) < Abs(b) /\ (r = 0 \/ (r < 0) = (a < 0))

\* the integer a op b, and op a for a value of the type t
Folded(op, a, b) ==
    CASE op = "+" -> a + b
      [] op = "-" -> a - b
      [] op = "*" -> a * b
      [] op = "/" -> Truncated(a, b)
      [] op = "%" -> a - b * Truncated(a, b)

FoldedUnary(op, a, t) ==
    CASE op = "+" -> a
      [] op = "-" -> 0 - a
      [] op = "^" -> IF t = Typ("Uint8") THEN 255 - a ELSE (0 - a) - 1

\* the integer v is a value of the type t
InRange(v, t) ==
    CASE t = Typ("Int8") -> -128 <= v /\ v <= 127
      [] t = Typ("Uint8") -> 0 <= v /\ v <= 255

\* the rule gave the constant v of type t, and reported nothing
FoldedTo(v, t) ==
    /\ last.x.mode = "constant"
    /\ last.x.typ = t
    /\ last.x.val = MakeInt(v)
    /\ last.errs = <<>>

\* the rule gave what C22 states for the integer v it folded to
Rechecked(v, t) ==
    IF isUntyped(t) \/ InRange(v, t) THEN FoldedTo(v, t)
    ELSE last.x.mode = "invalid" /\ last.errs = <<"overflows">>

IntConst(x) ==
    /\ x.mode = "constant" /\ x.val.kind = "Int"
    /\ x.typ \in {Typ("Int8"), Typ("Uint8"), Typ("UntypedInt")}

\* C22: a unary or binary operation on integer constants of one type (the
\* divisor not zero) folds to the exact result, the quotient rounded towards
\* zero; a result of type int8 or uint8 outside the range of its type is
\* invalid and reported as an overflow; an untyped result is a constant
\* whatever its value is
C22_FoldRechecked ==
    /\ last.rule = "binary" /\ nodes[last.node].op \in FoldBinaryOps =>
          LET x == opnd[nodes[last.node].X]
              y == opnd[nodes[last.node].Y]
          IN /\ IntConst(x) /\ IntConst(y) /\ x.typ = y.typ
             /\ ~(nodes[last.node].op \in {"/", "%"} /\ Sign(y.val) = 0)
             => IF IsSmall(x.val.int) /\ IsSmall(y.val.int)
                THEN Rechecked(Folded(nodes[last.node].op, SmallInt(x.val), SmallInt(y.val)),
                               x.typ)
                ELSE /\ last.x.mode = "constant" /\ last.x.typ = x.typ
                     /\ last.errs = <<>>
    /\ last.rule = "unary" /\ nodes[last.node].op \in FoldUnaryOps =>
          LET x == opnd[nodes[last.node].X]
          IN IntConst(x) =>
                IF IsSmall(x.val.int)
                THEN Rechecked(FoldedUnary(nodes[last.node].op, SmallInt(x.val), x.typ),
                               x.typ)
                ELSE /\ last.x.mode = "constant" /\ last.x.typ = x.typ
                     /\ last.errs = <<>>

\* -128 / -1 of type int8 is 128: an overflow
C22_Witness ==
    /\ last.rule = "binary"
    /\ nodes[last.node].op = "/"
    /\ opnd[nodes[last.node].X] = Operand("constant", Typ("Int8"), MakeInt(-128), nodes[last.node].X)
    /\ opnd[nodes[last.node].Y] = Operand("constant", Typ("Int8"), MakeInt(-1), nodes[last.node].Y)
    /\ last.x.mode = "invalid"
    /\ last.errs = <<"overflows">>

-----------------------------------------------------------------------------
(* SpecUpdate: untyped expressions (constants, negations, sums, shifts by  *)
(* a variable or by another shift, comparisons, parentheses) that their    *)
(* context converts to typed and to untyped types, so that updateExprType  *)
(* runs on trees of entries of the table of untyped expressions            *)

MaxUpdateNodes == 5

UpdateLeaves == {LitInt(1), LitFloat(5, 2), IdentVar("Uint")}
UpdateOps == {"+", "<<", "=="}
UpdateTargets == {Typ("Int"), Typ("Float64"), Typ("Bool"), Typ("UntypedFloat")}

UpdateLeaf(leaf) ==
    /\ Len(stack) < 3
    /\ LeafWithin(leaf, MaxUpdateNodes)

NextUpdate ==
    \/ \E leaf \in UpdateLeaves : UpdateLeaf(leaf)
    \/ ParenWithin(MaxUpdateNodes)
    \/ UnaryWithin("-", MaxUpdateNodes)
    \/ \E op \in UpdateOps : BinaryWithin(op, MaxUpdateNodes)
    \/ \E target \in UpdateTargets : UntypedConvert(target)

SpecUpdate == Init /\ [][NextUpdate]_vars

\* the entries updateExprType on the node n is to reach: n if it is tracked,
\* and then the entries its operands are to reach, by the kind of n
RECURSIVE Propagated(_)
Propagated(n) ==
    IF n \notin DOMAIN untyped THEN {}
    ELSE {n} \cup
         CASE nodes[n].kind = "ParenExpr" -> Propagated(nodes[n].X)
           [] nodes[n].kind \in {"UnaryExpr", "BinaryExpr"} /\ untyped[n].val # NoVal -> {}
           [] nodes[n].kind = "UnaryExpr" -> Propagated(nodes[n].X)
           [] nodes[n].kind = "BinaryExpr" /\ isComparison(nodes[n].op) -> {}
           [] nodes[n].kind = "BinaryExpr" /\ isShift(nodes[n].op) -> Propagated(nodes[n].X)
           [] nodes[n].kind = "BinaryExpr" ->
                 Propagated(nodes[n].X) \cup Propagated(nodes[n].Y)
           [] OTHER -> {}

\* convertUntyped with this target calls updateExprType for the expression
\* on top of the stack, and the type is the final one
Updates(target) ==
    /\ Convert(target)
    /\ opnd[Top].mode # "invalid" /\ isUntyped(opnd[Top].typ)
    /\ last'.x.mode # "invalid"
    /\ last'.x.typ # opnd[Top].typ

\* C23: updateExprType changes the entries it is to reach by the rules for
\* the kinds of expressions, and no other entry: a final type removes them,
\* a provisional one becomes their type
C23_Propagation ==
    [][\A target \in UpdateTargets :
          Updates(target) =>
             IF isUntyped(target)
             THEN /\ DOMAIN untyped' = DOMAIN untyped
                  /\ \A m \in DOMAIN untyped :
                        untyped'[m] = IF m \in Propagated(Top)
                                      THEN [untyped[m] EXCEPT !.typ = target]
                                      ELSE untyped[m]
             ELSE /\ DOMAIN untyped' = DOMAIN untyped \ Propagated(Top)
                  /\ \A m \in DOMAIN untyped' : untyped'[m] = untyped[m]
                  /\ \A m \in DOMAIN notes :
                        m \notin Propagated(Top) => notes'[m] = notes[m]]_vars

\* 1 + 1 << u was converted to int: the shift and the constant sum are int,
\* and the operands of the sum are in the table as before
C23_Witness ==
    /\ last.rule = "convertUntyped"
    /\ nodes[last.node].op = "<<"
    /\ nodes[nodes[last.node].X].kind = "BinaryExpr"
    /\ nodes[nodes[last.node].X].op = "+"
    /\ last.x.typ = Typ("Int")
    /\ DOMAIN untyped = {nodes[nodes[last.node].X].X, nodes[nodes[last.node].X].Y}
    /\ notes[nodes[last.node].X] = <<Typ("Int")>>

\* updateExprType(n, typ, final) on the tables of this state
Updated(n, typ, final) == updateExprType(Tables, n, typ, final)

\* what C24 states of the tables ck that updateExprType(n, typ, final) left
UpdateEffect(n, typ, final, ck) ==
    IF n \notin DOMAIN untyped THEN ck = Tables
    ELSE IF isUntyped(typ) /\ ~final
    THEN /\ n \in DOMAIN ck.untyped
         /\ ck.untyped[n] = [untyped[n] EXCEPT !.typ = typ]
         /\ ck.notes = notes
         /\ ck.errs = errs
    ELSE n \notin DOMAIN ck.untyped

\* C24: updateExprType on a node that is not in the table of untyped
\* expressions changes nothing; on a node that is, a provisional untyped
\* type replaces the type of its entry, which stays, and nothing is
\* notified; in every other case the entry is removed
C24_EntryUpdate ==
    \A n \in DOMAIN nodes : \A typ \in UntypedTargets \cup {Typ("Bool")} :
        \A final \in BOOLEAN :
            UpdateEffect(n, typ, final, Updated(n, typ, final))

\* 1 << u was converted to untyped float: the shift and its left operand
\* are in the table as untyped floats, the operand still marked as shifted
C24_Witness ==
    /\ last.rule = "convertUntyped"
    /\ nodes[last.node].op = "<<"
    /\ last.x.typ = Typ("UntypedFloat")
    /\ untyped[last.node] = exprInfo(FALSE, Typ("UntypedFloat"), NoVal)
    /\ untyped[nodes[last.node].X] = exprInfo(TRUE, Typ("UntypedFloat"), MakeInt(1))
    /\ notes[last.node] = <<>>
    /\ notes[nodes[last.node].X] = <<>>
    /\ errs = <<>>

-----------------------------------------------------------------------------
(* SpecStruct: the element loops of a struct literal. An iteration is one  *)
(* step; the value of an element is a variable, of the type int of the     *)
(* fields or of the type string.                                           *)

MaxStructElts == 3

Struct(fields) == [tag |-> "Struct", fields |-> fields]

\* fieldIndex: the index of the field of that name, from 1 (the code counts
\* from 0), or -1
fieldIndex(fields, name) ==
    IF \E i \in DOMAIN fields : fields[i].name = name
    THEN CHOOSE i \in DOMAIN fields : fields[i].name = name
    ELSE -1

\* what an iteration leaves: the tables, the fields visited, break or not,
\* and the operand of the value if check.expr was called for it
Iteration(ck, visited, stop) ==
    [ck |-> ck, visited |-> visited, stop |-> stop, value |-> FALSE]
IterationValue(x, ck, visited) ==
    [ck |-> ck, visited |-> visited, stop |-> FALSE, value |-> TRUE, x |-> x]

\* an iteration after check.assignment gave a for the value
structLitAssigned(a, visited) ==
    IterationValue(a.x,
                   IF ~a.ok /\ a.x.mode # "invalid"
                   THEN Report(a.ck, a.x.expr, "cannot use as value in struct literal")
                   ELSE a.ck,
                   visited)

\* an iteration of the loop for literals whose first element has a key; rv
\* is what check.expr gives for the value of the element el at e
structLitKeyed(el, fields, visited, rv, ck, e) ==
    IF el.key = "none"
    THEN Iteration(Report(ck, e, "mixture of field:value and value elements"),
                   visited, FALSE)
    ELSE IF el.key # "ident"
    THEN Iteration(Report(ck, e, "invalid field name"), visited, FALSE)
    ELSE IF fieldIndex(fields, el.name) < 0
    THEN Iteration(Report(ck, e, "unknown field"), visited, FALSE)
    ELSE IF fieldIndex(fields, el.name) \in visited
    THEN Iteration(Report(ck, e, "duplicate field name"), visited, FALSE)
    ELSE structLitAssigned(assignment(rv.x, fields[fieldIndex(fields, el.name)].typ,
                                      rv.ck),
                           visited \cup {fieldIndex(fields, el.name)})

\* a mutant of structLitPositional: the loop goes on after too many values
structLitPositionalGoesOn(el, i, fields, rv, ck, e) ==
    IF el.key # "none"
    THEN Iteration(Report(ck, e, "mixture of field:value and value elements"), {}, FALSE)
    ELSE IF i > Len(fields)
    THEN [IterationValue(rv.x, Report(rv.ck, e, "too many values"), {})
             EXCEPT !.stop = FALSE]
    ELSE structLitAssigned(assignment(rv.x, fields[i].typ, rv.ck), {})

\* the i-th iteration (from 1) of the loop for literals whose first element
\* has no key
structLitPositional(el, i, fields, rv, ck, e) ==
    IF el.key # "none"
    THEN Iteration(Report(ck, e, "mixture of field:value and value elements"), {}, FALSE)
    ELSE IF i > Len(fields)
    THEN [IterationValue(rv.x, Report(rv.ck, e, "too many values"), {})
             EXCEPT !.stop = TRUE]
    ELSE structLitAssigned(assignment(rv.x, fields[i].typ, rv.ck), {})

\* the step of the model for the iteration that left it
StructIterated(it) ==
    /\ IF it.value
       THEN Returned("element", Len(nodes) + 1, Node("Ident", "", 0, 0),
                     Res(it.x, it.ck), stack)
       ELSE /\ errs' = it.ck.errs
            /\ UNCHANGED <<nodes, opnd, untyped, notes, stack, done, last>>
    /\ lit' = [lit EXCEPT !.i = IF it.stop THEN Len(lit.elts) + 1 ELSE @ + 1,
                          !.visited = it.visited,
                          !.checked = IF it.value THEN @ \cup {lit.i} ELSE @,
                          !.diags = Append(@, NewErrs(it.ck))]
    /\ UNCHANGED <<fn, funclist>>

\* check.expr on the value of the element el, a variable, at the new node e
StructValue(el, e) == rawExprRecord(Operand("variable", el.val, NoVal, e), Tables)

\* an iteration of the loop the first element selects
StructElement ==
    /\ lit.pc = "elt"
    /\ lit.i <= Len(lit.elts)
    /\ LET el == lit.elts[lit.i]
           e == Len(nodes) + 1
       IN IF lit.elts[1].key # "none"
          THEN StructIterated(structLitKeyed(el, lit.utyp.fields, lit.visited,
                                             StructValue(el, e), Tables, e))
          ELSE StructIterated(structLitPositional(el, lit.i, lit.utyp.fields,
                                                  StructValue(el, e), Tables, e))

\* after the loop: too few values are reported, and the literal is a value
\* of its type
structLitDone(elts, fields, ck, e) ==
    IF elts # <<>> /\ elts[1].key = "none" /\ Len(elts) < Len(fields)
    THEN Report(ck, e, "too few values") ELSE ck

StructTyped ==
    /\ lit.pc = "elt"
    /\ lit.i > Len(lit.elts)
    /\ LET e == Len(nodes) + 1
           ck == structLitDone(lit.elts, lit.utyp.fields, Tables, e)
       IN /\ Return("literal", e, Node("CompositeLit", "", 0, 0),
                    Res(Operand("value", lit.utyp, NoVal, e), ck), stack)
          /\ lit' = [lit EXCEPT !.pc = "typed", !.diags = Append(@, NewErrs(ck))]
    /\ UNCHANGED <<fn, funclist>>

\* the elements: values of type int and string; int values for the fields a
\* and b and for the name z of no field; a string for a; a key that is no name
StructElts ==
    {[key |-> "none", name |-> "", val |-> Typ(k)] : k \in {"Int", "String"}}
    \cup {[key |-> "ident", name |-> f, val |-> Typ("Int")] : f \in {"a", "b", "z"}}
    \cup {[key |-> "ident", name |-> "a", val |-> Typ("String")],
          [key |-> "other", name |-> "", val |-> Typ("Int")]}
StructEltSeqs == UNION {[1..n -> StructElts] : n \in 0..MaxStructElts}
\* struct{}, struct{a int} and struct{a, b int}
StructTypes ==
    {Struct(<<>>), Struct(<<[name |-> "a", typ |-> Typ("Int")]>>),
     Struct(<<[name |-> "a", typ |-> Typ("Int")], [name |-> "b", typ |-> Typ("Int")]>>)}

InitStruct ==
    /\ ExprInit
    /\ FnInit
    /\ lit \in {[pc |-> "elt", elts |-> es, i |-> 1, visited |-> {}, checked |-> {},
                  diags |-> <<>>, utyp |-> t] : es \in StructEltSeqs, t \in StructTypes}

NextStruct == StructElement \/ StructTyped

SpecStruct == InitStruct /\ [][NextStruct]_vars

ShapeMessages ==
    {"mixture of field:value and value elements", "invalid field name", "unknown field",
     "duplicate field name", "too many values", "too few values"}

\* the diagnostics of the literal about its shape, in order
RECURSIVE Flat(_)
Flat(ss) == IF ss = <<>> THEN <<>> ELSE Head(ss) \o Flat(Tail(ss))
ShapeDiags == SelectSeq(Flat(lit.diags), LAMBDA m : m \in ShapeMessages)

AllKeyed(elts, fields) ==
    /\ \A i \in DOMAIN elts :
          elts[i].key = "ident" /\ \E f \in DOMAIN fields : fields[f].name = elts[i].name
    /\ \A i, j \in DOMAIN elts : i # j => elts[i].name # elts[j].name
AllPositional(elts) == \A i \in DOMAIN elts : elts[i].key = "none"
Mixed(elts) ==
    /\ \E i \in DOMAIN elts : elts[i].key = "none"
    /\ \E i \in DOMAIN elts : elts[i].key # "none"

\* C25: a struct literal gets no diagnostic about its shape iff it has no
\* elements, or names a different field with every element, or has a value
\* and no key for every field; mixed elements, an unknown or a repeated
\* name, too many and too few values each get a diagnostic, and no element
\* after the first value too many is checked
C25_StructShape ==
    lit.pc = "typed" =>
       LET elts == lit.elts
           fields == lit.utyp.fields
       IN /\ ShapeDiags = <<>> <=>
                \/ elts = <<>>
                \/ AllKeyed(elts, fields)
                \/ AllPositional(elts) /\ Len(elts) = Len(fields)
          /\ AllPositional(elts) /\ Len(elts) > Len(fields) =>
                /\ ShapeDiags = <<"too many values">>
                /\ lit.checked = 1..(Len(fields) + 1)
          /\ AllPositional(elts) /\ elts # <<>> /\ Len(elts) < Len(fields) =>
                ShapeDiags = <<"too few values">>
          /\ elts # <<>> /\ elts[1].key # "none" =>
                \A i \in DOMAIN elts :
                   LET own == SelectSeq(lit.diags[i], LAMBDA m : m \in ShapeMessages)
                   IN CASE elts[i].key = "none" ->
                              own = <<"mixture of field:value and value elements">>
                        [] elts[i].key = "other" -> own = <<"invalid field name">>
                        [] fieldIndex(fields, elts[i].name) < 0 -> own = <<"unknown field">>
                        [] \E j \in 1..(i - 1) :
                              elts[j].key = "ident" /\ elts[j].name = elts[i].name ->
                              own = <<"duplicate field name">>
                        [] OTHER -> own = <<>>
          /\ Mixed(elts) => ShapeDiags # <<>>

\* struct{a int}{x, y, z}: y is one value too many, and z is not checked
C25_Witness ==
    /\ lit.pc = "typed"
    /\ Len(lit.utyp.fields) = 1
    /\ Len(lit.elts) = 3
    /\ AllPositional(lit.elts)
    /\ lit.checked = {1, 2}
    /\ ShapeDiags = <<"too many values">>
    /\ Len(nodes) = 3

-----------------------------------------------------------------------------
(***************************************************************************)
(* SpecAssert: type assertions x.(T) on variables of interface types and   *)
(* of the type int, for asserted types that are interfaces, concrete types *)
(* with methods, invalid or absent (x.(type)). A method is a name and a    *)
(* signature; an interface lists its methods in the order of declaration.  *)
(***************************************************************************)

MaxAssertNodes == 3

Method(name, sig) == [name |-> name, sig |-> sig]
InterfaceOf(methods) == [tag |-> "Interface", empty |-> methods = <<>>, methods |-> methods]
\* a named type with a struct as its underlying type and the methods given
Concrete(methods) == [tag |-> "Named", methods |-> methods]

\* the method of typ with the name given, if there is one
HasMethod(typ, name) == \E i \in DOMAIN typ.methods : typ.methods[i].name = name
HasMethodOf(typ, m) == \E i \in DOMAIN typ.methods : typ.methods[i] = m

\* MissingMethod: the first method of T that typ does not have with the
\* same signature, and whether typ has a method of that name
MissingMethod(typ, T) ==
    IF \A i \in DOMAIN T.methods : HasMethodOf(typ, T.methods[i])
    THEN [found |-> FALSE, name |-> "", wrongType |-> FALSE]
    ELSE LET i == CHOOSE i \in DOMAIN T.methods :
                      /\ ~HasMethodOf(typ, T.methods[i])
                      /\ \A j \in 1..(i - 1) : HasMethodOf(typ, T.methods[j])
         IN [found |-> TRUE, name |-> T.methods[i].name,
             wrongType |-> HasMethod(typ, T.methods[i].name)]

\* a mutant of typeAssertMethods: a missing method is reported for an
\* interface as for a concrete type
typeAssertMethodsStatic(e, x, typ, mm, ck) ==
    Res([x EXCEPT !.mode = "valueok", !.typ = typ],
        IF ~mm.found THEN ck
        ELSE IF mm.wrongType THEN Report(ck, e, "wrong type for method")
        ELSE Report(ck, e, "missing method"))

\* expr0, TypeAssertExpr, after MissingMethod gave mm for the type typ
typeAssertMethods(e, x, typ, mm, ck) ==
    Res([x EXCEPT !.mode = "valueok", !.typ = typ],
        IF ~mm.found THEN ck
        ELSE IF mm.wrongType THEN Report(ck, e, "wrong type for method")
        ELSE IF typ.tag # "Interface" THEN Report(ck, e, "missing method")
        ELSE ck)

\* expr0, TypeAssertExpr, after expr gave rx for e.X: hasType is e.Type # nil
\* and typ what check.typ gave for it
expr0TypeAssert(e, rx, hasType, typ) ==
    IF rx.x.mode = "invalid" THEN expr0Done(rx, e)
    ELSE IF rx.x.typ.tag # "Interface"
    THEN expr0Done(Res(Invalidate(rx.x), Report(rx.ck, rx.x.expr, "is not an interface")), e)
    ELSE IF ~hasType
    THEN expr0Done(Res(Invalidate(rx.x),
                       Report(rx.ck, e, "use of .(type) outside type switch")), e)
    ELSE IF typ = Typ("Invalid") THEN expr0Done(Res(Invalidate(rx.x), rx.ck), e)
    ELSE expr0Done(typeAssertMethods(e, rx.x, typ, MissingMethod(typ, rx.x.typ), rx.ck), e)

AssertNode(X, hasType, typ) ==
    [kind |-> "TypeAssertExpr", op |-> "", X |-> X, Y |-> 0, hasType |-> hasType,
     Type |-> typ]

\* x.(T) for the expression x on top of the stack
CheckAssert(hasType, typ) ==
    /\ Len(nodes) < MaxAssertNodes
    /\ stack # <<>>
    /\ hasType \/ typ = Typ("Invalid")
    /\ LET e == Len(nodes) + 1
       IN Return("assert", e, AssertNode(Top, hasType, typ),
                 expr0TypeAssert(e, expr(opnd[Top], Tables), hasType, typ),
                 SubSeq(stack, 1, Len(stack) - 1))
    /\ UNCHANGED <<fn, lit, funclist>>

Read == Method("Read", "func()")
ReadInt == Method("Read", "func(int)")
Close == Method("Close", "func()")

\* interface{}, interface{Read()}, interface{Read(int)},
\* interface{Close(); Read()} and interface{Read(); Close()}
AssertInterfaces ==
    {InterfaceOf(<<>>), InterfaceOf(<<Read>>), InterfaceOf(<<ReadInt>>),
     InterfaceOf(<<Close, Read>>), InterfaceOf(<<Read, Close>>)}

\* the asserted types: the interfaces, concrete types with no method, with
\* Read() and with Read(int), a basic type, and a type that is invalid
AssertTypes ==
    AssertInterfaces \cup {Concrete(<<>>), Concrete(<<Read>>), Concrete(<<ReadInt>>),
                           Typ("Invalid")}

\* variables of the interface types and of the type int, and a call of a
\* function with no result
AssertLeaves ==
    {LeafOf("Ident", "variable", T) : T \in AssertInterfaces}
        \cup {IdentVar("Int"), LeafOf("CallExpr", "novalue", Typ("Invalid"))}

AssertLeaf(leaf) == Len(stack) < 1 /\ LeafWithin(leaf, MaxAssertNodes)

NextAssert ==
    \/ \E leaf \in AssertLeaves : AssertLeaf(leaf)
    \/ \E hasType \in BOOLEAN, typ \in AssertTypes : CheckAssert(hasType, typ)

SpecAssert == Init /\ [][NextAssert]_vars

ReportedAt(e, msg) == \E i \in DOMAIN errs : errs[i] = <<e, msg>>

\* the type assertion n is one of an interface to a valid type
AssertsInterface(n) ==
    /\ nodes[n].kind = "TypeAssertExpr"
    /\ opnd[nodes[n].X].mode \in {"value", "variable", "valueok"}
    /\ opnd[nodes[n].X].typ.tag = "Interface"
    /\ nodes[n].hasType
    /\ nodes[n].Type # Typ("Invalid")

\* the asserted type has a method of a method's name with another signature
WrongSignature(typ, T) ==
    \E i \in DOMAIN T.methods :
        HasMethod(typ, T.methods[i].name) /\ ~HasMethodOf(typ, T.methods[i])

\* the asserted type lacks a method of the name of a method
LacksMethod(typ, T) == \E i \in DOMAIN T.methods : ~HasMethod(typ, T.methods[i].name)

\* the operand of the assertion n has the asserted type and the mode valueok
AssertResult(n) == opnd[n].mode = "valueok" /\ opnd[n].typ = nodes[n].Type

\* C28 as stated: an assertion of an interface to a valid interface type
\* gets no diagnostic about a method, missing or of the wrong signature, and
\* every assertion of an interface to a valid type has the asserted type
\* with mode valueok
C28_InterfaceNeverReported ==
    \A n \in DOMAIN nodes :
        AssertsInterface(n) =>
            /\ AssertResult(n)
            /\ nodes[n].Type.tag = "Interface" =>
                  /\ ~ReportedAt(n, "missing method")
                  /\ ~ReportedAt(n, "wrong type for method")

\* C28 amended: an assertion to an interface type gets no diagnostic about
\* a missing method, and gets one about a method of the wrong signature
\* exactly when MissingMethod returns such a method, as it does when no
\* method is missing; the result is as stated
C28_MissingNeverReported ==
    \A n \in DOMAIN nodes :
        AssertsInterface(n) =>
            /\ AssertResult(n)
            /\ nodes[n].Type.tag = "Interface" =>
                  /\ ~ReportedAt(n, "missing method")
                  /\ ReportedAt(n, "wrong type for method") <=>
                        MissingMethod(nodes[n].Type, opnd[nodes[n].X].typ).wrongType
                  /\ ReportedAt(n, "wrong type for method") =>
                        WrongSignature(nodes[n].Type, opnd[nodes[n].X].typ)
                  /\ /\ WrongSignature(nodes[n].Type, opnd[nodes[n].X].typ)
                     /\ ~LacksMethod(nodes[n].Type, opnd[nodes[n].X].typ)
                     => ReportedAt(n, "wrong type for method")

\* r.(interface{Read(int)}) for a variable r of type interface{Read()} has
\* the asserted type with mode valueok, and a diagnostic about Read
C28_Witness ==
    /\ last.rule = "assert"
    /\ opnd[nodes[last.node].X].typ = InterfaceOf(<<Read>>)
    /\ nodes[last.node].Type = InterfaceOf(<<ReadInt>>)
    /\ last.x.mode = "valueok"
    /\ last.x.typ = InterfaceOf(<<ReadInt>>)
    /\ last.errs = <<"wrong type for method">>

-----------------------------------------------------------------------------
(***************************************************************************)
(* SpecAddr: the address operator on variables, constants, composite       *)
(* literals and function results, in parentheses or not, and on the        *)
(* results of the address operator and of negation.                        *)
(***************************************************************************)

MaxAddrNodes == 5

\* a variable, a constant, a composite literal []int{...} as expr0 leaves
\* it, and a call that gives an int
AddrLeaves ==
    {IdentVar("Int"), LitInt(1), LeafOf("CompositeLit", "value", Slice(Typ("Int"))),
     LeafOf("CallExpr", "value", Typ("Int"))}

AddrLeaf(leaf) == Len(stack) < 1 /\ LeafWithin(leaf, MaxAddrNodes)

NextAddr ==
    \/ \E leaf \in AddrLeaves : AddrLeaf(leaf)
    \/ ParenWithin(MaxAddrNodes)
    \/ \E op \in {"&", "-"} : UnaryWithin(op, MaxAddrNodes)

SpecAddr == Init /\ [][NextAddr]_vars

\* n is &x for an operand x that is not invalid
IsAddr(n) ==
    /\ nodes[n].kind = "UnaryExpr"
    /\ nodes[n].op = "&"
    /\ opnd[nodes[n].X].mode # "invalid"

\* the operand of &x is a variable or a composite literal, in parentheses
\* or not
Addressable(n) ==
    \/ opnd[nodes[n].X].mode = "variable"
    \/ nodes[unparen(nodes[n].X)].kind = "CompositeLit"

\* C29: &x is accepted iff x is a variable or a composite literal, in
\* parentheses or not, and is rejected with a cannot-take-address
\* diagnostic otherwise; the result of an accepted &x is a pointer to the
\* type of x with mode value, so that &&x is rejected
C29_AddressIsValue ==
    \A n \in DOMAIN nodes :
        IsAddr(n) =>
            IF Addressable(n)
            THEN /\ opnd[n].mode = "value"
                 /\ opnd[n].typ = Pointer(opnd[nodes[n].X].typ)
            ELSE /\ opnd[n].mode = "invalid"
                 /\ \E i \in DOMAIN errs : errs[i] = <<nodes[n].X, "cannot take address">>

\* &&x for a variable x is accepted
AddressOfAddressAccepted ==
    /\ last.rule = "unary"
    /\ IsAddr(last.node)
    /\ IsAddr(nodes[last.node].X)
    /\ nodes[nodes[nodes[last.node].X].X].kind = "Ident"
    /\ last.x.mode = "variable"
    /\ last.x.typ = Pointer(Pointer(Typ("Int")))
    /\ last.errs = <<>>

-----------------------------------------------------------------------------
(***************************************************************************)
(* SpecFind: the loop of findInterestingNode (oracle/describe) on a path   *)
(* of AST nodes from a node to its file. A node is its kind, the number n  *)
(* of its Names or Specs, the outcome obj of ObjectOf for the identifier   *)
(* the loop may descend to (for an identifier: for itself), and for a      *)
(* GenDecl its first Spec. fn holds the path and, after the return, the    *)
(* action. One step is one iteration of the loop.                          *)
(***************************************************************************)

MaxNames == 2

\* the outcomes of ObjectOf: no object, or an object of one of the types of
\* the type switch; Builtin is a *types.Func whose type is a *types.Builtin
Objects == {"none", "Package", "Const", "Label", "TypeName", "Var", "Func", "Builtin"}

NoSpec == [kind |-> "none", n |-> 0, obj |-> "none"]
FindNode(kind, n, obj, spec) == [kind |-> kind, n |-> n, obj |-> obj, spec |-> spec]
PlainNode(kind) == FindNode(kind, 0, "none", NoSpec)

\* pkginfo.ObjectOf for the identifier the node holds
ObjectOf(n) == n.obj

\* the Spec or identifier the loop descends to from the node n
FindChild(n) ==
    IF n.kind = "GenDecl" THEN FindNode(n.spec.kind, n.spec.n, n.spec.obj, NoSpec)
    ELSE FindNode("Ident", 0, n.obj, NoSpec)

FindStmts == {"BlockStmt", "ExprStmt", "DeclStmt"}
FindTypes == {"ArrayType", "StructType", "FuncType", "InterfaceType", "MapType", "ChanType"}
FindUninteresting == {"Comment", "CommentGroup", "File", "KeyValueExpr", "CommClause"}

FindResult(op, path, action) == [op |-> op, path |-> path, action |-> action]
FindDescendTo(path) == FindResult("descend", <<FindChild(path[1])>> \o path, "")
FindAscendFrom(path) == FindResult("ascend", Tail(path), "")
FindReturns(path, action) == FindResult("return", path, action)

\* the identifier path[1] is a name of a Field of a type of the kind given
InFieldOf(path, kind) == path[2].kind = "Field" /\ path[4].kind = kind

\* findInterestingNode, case *ast.Ident
findIdent(path) ==
    CASE ObjectOf(path[1]) = "Package" -> FindReturns(path, "actionPackage")
      [] ObjectOf(path[1]) = "Const" -> FindReturns(path, "actionExpr")
      [] ObjectOf(path[1]) = "Label" -> FindReturns(path, "actionStmt")
      [] ObjectOf(path[1]) = "TypeName" -> FindReturns(path, "actionType")
      [] ObjectOf(path[1]) = "Var" ->
            IF InFieldOf(path, "StructType")
            THEN FindReturns(SubSeq(path, 4, Len(path)), "actionType")
            ELSE FindReturns(path, "actionExpr")
      [] ObjectOf(path[1]) \in {"Func", "Builtin"} ->
            IF InFieldOf(path, "InterfaceType")
            THEN FindReturns(SubSeq(path, 4, Len(path)), "actionType")
            ELSE IF ObjectOf(path[1]) = "Builtin" THEN FindAscendFrom(path)
            ELSE FindReturns(path, "actionExpr")
      [] OTHER ->
            CASE path[2].kind = "SelectorExpr" -> FindReturns(Tail(path), "actionExpr")
              [] path[2].kind = "Field" -> FindAscendFrom(path)
              [] path[2].kind = "ImportSpec" -> FindReturns(Tail(path), "actionPackage")
              [] OTHER -> FindReturns(path, "actionUnknown")

\* findInterestingNode: one iteration of the loop for the path given; isType
\* is the outcome of pkginfo.IsType for a StarExpr
findIteration(path, isType) ==
    CASE path[1].kind = "GenDecl" ->
            IF path[1].n = 1 THEN FindDescendTo(path)
            ELSE FindReturns(path, "actionUnknown")
      [] path[1].kind = "FuncDecl" -> FindDescendTo(path)
      [] path[1].kind = "ImportSpec" -> FindReturns(path, "actionPackage")
      [] path[1].kind = "ValueSpec" ->
            IF path[1].n = 1 THEN FindDescendTo(path)
            ELSE FindReturns(path, "actionUnknown")
      [] path[1].kind = "TypeSpec" -> FindDescendTo(path)
      [] path[1].kind \in FindStmts -> FindReturns(path, "actionStmt")
      [] path[1].kind \in FindTypes -> FindReturns(path, "actionType")
      [] path[1].kind \in FindUninteresting -> FindReturns(path, "actionUnknown")
      [] path[1].kind = "Ellipsis" -> FindAscendFrom(path)
      [] path[1].kind = "Field" ->
            IF path[1].n = 1 THEN FindDescendTo(path) ELSE FindAscendFrom(path)
      [] path[1].kind = "FieldList" -> FindAscendFrom(path)
      [] path[1].kind = "BasicLit" ->
            IF path[2].kind = "ImportSpec" THEN FindReturns(Tail(path), "actionPackage")
            ELSE FindReturns(path, "actionExpr")
      [] path[1].kind = "SelectorExpr" ->
            IF ObjectOf(path[1]) = "none" THEN FindReturns(path, "actionUnknown")
            ELSE FindDescendTo(path)
      [] path[1].kind = "Ident" -> findIdent(path)
      [] path[1].kind = "StarExpr" ->
            FindReturns(path, IF isType THEN "actionType" ELSE "actionExpr")
      [] OTHER -> FindReturns(path, "actionExpr")

Looping == fn.name = "findInterestingNode" /\ fn.pc = "loop" /\ fn.path # <<>>

\* an iteration that descends to a child of path[0]
FindDescend ==
    /\ Looping
    /\ \E isType \in BOOLEAN :
          /\ findIteration(fn.path, isType).op = "descend"
          /\ fn' = [fn EXCEPT !.path = findIteration(fn.path, isType).path]
    /\ UNCHANGED <<exprVars, lit>>

\* an iteration that ascends to the parent of path[0]
FindAscend ==
    /\ Looping
    /\ \E isType \in BOOLEAN :
          /\ findIteration(fn.path, isType).op = "ascend"
          /\ fn' = [fn EXCEPT !.path = findIteration(fn.path, isType).path]
    /\ UNCHANGED <<exprVars, lit>>

\* an iteration that returns a path and an action
FindReturn ==
    /\ Looping
    /\ \E isType \in BOOLEAN :
          /\ findIteration(fn.path, isType).op = "return"
          /\ fn' = [fn EXCEPT !.pc = "return",
                              !.path = findIteration(fn.path, isType).path,
                              !.action = findIteration(fn.path, isType).action]
    /\ UNCHANGED <<exprVars, lit>>

NextFind == FindDescend \/ FindAscend \/ FindReturn

\* the kinds of the nodes from a node to its file, for the paths of
\*   type T struct { f int }, type T interface { f() }, func (r T) f(p ...T),
\*   var v = unsafe.Sizeof(x), import "p", func f() { g(1, y...) }
Skeletons ==
    {<<"Ident", "Field", "FieldList", "StructType", "TypeSpec", "GenDecl", "File">>,
     <<"Ident", "Field", "FieldList", "InterfaceType", "TypeSpec", "GenDecl", "File">>,
     <<"Ident", "Field", "FieldList", "FuncDecl", "File">>,
     <<"Ident", "Ellipsis", "Field", "FieldList", "FuncType", "FuncDecl", "File">>,
     <<"Ident", "StarExpr", "Field", "FieldList", "FuncType", "FuncDecl", "File">>,
     <<"Ident", "SelectorExpr", "CallExpr", "ValueSpec", "GenDecl", "File">>,
     <<"Ident", "ValueSpec", "GenDecl", "DeclStmt", "BlockStmt", "FuncDecl", "File">>,
     <<"BasicLit", "ImportSpec", "GenDecl", "File">>,
     <<"Ident", "ImportSpec", "GenDecl", "File">>,
     <<"Ident", "FuncDecl", "File">>,
     <<"Ident", "TypeSpec", "GenDecl", "File">>,
     <<"BasicLit", "CallExpr", "ExprStmt", "BlockStmt", "FuncDecl", "File">>,
     <<"Ident", "Ellipsis", "CallExpr", "ExprStmt", "BlockStmt", "FuncDecl", "File">>}

\* the outcomes of ObjectOf for the name a node declares: no object, or an
\* object of a type that such a node declares
Declared(kind) ==
    CASE kind = "FuncDecl" -> {"none", "Func"}
      [] kind = "TypeSpec" -> {"none", "TypeName"}
      [] kind = "ValueSpec" -> {"none", "Var", "Const"}
      [] kind = "Field" -> {"none", "Var", "Func"}

\* the same for the sole name of n names: the loop descends to no name of
\* none or of several
SoleObjects(kind, n) == IF n = 1 THEN Declared(kind) ELSE {"none"}

\* the Specs a GenDecl begins with
FirstSpecs ==
    {[kind |-> "ImportSpec", n |-> 0, obj |-> "none"]}
        \cup {[kind |-> "TypeSpec", n |-> 0, obj |-> o] : o \in Declared("TypeSpec")}
        \cup UNION {{[kind |-> "ValueSpec", n |-> n, obj |-> o] :
                        o \in SoleObjects("ValueSpec", n)} : n \in 1..MaxNames}

\* the nodes of a kind: with every number of names or Specs and every
\* outcome of ObjectOf for the identifier the loop may descend to
NodesOf(kind) ==
    CASE kind \in {"Ident", "SelectorExpr"} ->
            {FindNode(kind, 0, o, NoSpec) : o \in Objects}
      [] kind \in {"FuncDecl", "TypeSpec"} ->
            {FindNode(kind, 0, o, NoSpec) : o \in Declared(kind)}
      [] kind = "Field" ->
            UNION {{FindNode(kind, n, o, NoSpec) : o \in SoleObjects(kind, n)} :
                     n \in 0..MaxNames}
      [] kind = "ValueSpec" ->
            UNION {{FindNode(kind, n, o, NoSpec) : o \in SoleObjects(kind, n)} :
                     n \in 1..MaxNames}
      [] kind = "GenDecl" ->
            {FindNode(kind, 1, "none", s) : s \in FirstSpecs}
                \cup {FindNode(kind, n, "none", NoSpec) : n \in 2..MaxNames}
      [] OTHER -> {PlainNode(kind)}

\* the sole Spec of a GenDecl and the name of a FuncDecl are the child the
\* path comes from
Sole(child, parent) ==
    /\ parent.kind = "GenDecl" /\ parent.n = 1 =>
          parent.spec = [kind |-> child.kind, n |-> child.n, obj |-> child.obj]
    /\ parent.kind = "FuncDecl" /\ child.kind = "Ident" => parent.obj = child.obj

RECURSIVE PathsOf(_)
PathsOf(s) ==
    IF Len(s) = 1 THEN {<<n>> : n \in NodesOf(s[1])}
    ELSE UNION {{<<n>> \o p : p \in {q \in PathsOf(Tail(s)) : Sole(n, q[1])}} :
                    n \in NodesOf(s[1])}

\* the paths of the skeletons, from any of their nodes
FindPaths ==
    UNION {UNION {PathsOf(SubSeq(s, i, Len(s))) : i \in 1..Len(s)} : s \in Skeletons}

InitFind ==
    /\ ExprInit
    /\ LitInit
    /\ fn \in {[name |-> "findInterestingNode", pc |-> "loop", path |-> p, action |-> ""] :
                 p \in FindPaths}

\* the loop goes on as long as it has not returned
SpecFind == InitFind /\ [][NextFind]_vars /\ WF_vars(NextFind)

\* C30: findInterestingNode returns for every path and every outcome of
\* ObjectOf: its descents and ascents do not alternate for ever
C30_Terminates == <>(fn.pc = "return")

\* the loop is at a Field with one name whose identifier has no object: it
\* descends to the identifier and ascends to the Field again
FieldOfNoObject ==
    /\ Looping
    /\ fn.path[1].kind = "Field"
    /\ fn.path[1].n = 1
    /\ ObjectOf(fn.path[1]) = "none"

-----------------------------------------------------------------------------
(* SpecRepr: isRepresentableConst applied to constant values, target kinds *)
(* and word sizes                                                          *)

MaxDelta == 1

ReprExps == {7, 8, 15, 16, 31, 32, 63, 64}

ReprInts ==
    {BigOf(d) : d \in -MaxDelta..MaxDelta}
    \cup {BigAdd(Pow2(e), BigOf(d)) : e \in ReprExps, d \in -MaxDelta..MaxDelta}
    \cup {BigNeg(BigAdd(Pow2(e), BigOf(d))) : e \in ReprExps, d \in -MaxDelta..MaxDelta}

ReprValues ==
    {MakeBig(x) : x \in ReprInts}
    \cup {MakeBool(TRUE), MakeFloat(3, 2), MakeComplex(0, 1), MakeString("a"),
          NilVal, UnknownVal}

ReprCall ==
    /\ fn.name = "args"
    /\ fn' = [fn EXCEPT !.name = "isRepresentableConst",
                        !.res = isRepresentableConst(fn.x, [wordSize |-> fn.wordSize],
                                                     fn.as)]
    /\ UNCHANGED <<exprVars, lit>>

NextRepr == ReprCall

InitRepr ==
    /\ ExprInit
    /\ LitInit
    /\ fn \in {[name |-> "args", x |-> x, as |-> as, wordSize |-> ws, res |-> FALSE] :
                 x \in ReprValues, as \in AllKinds, ws \in WordSizes}

SpecRepr == InitRepr /\ [][NextRepr]_vars

SignedKinds == {"Int", "Int8", "Int16", "Int32", "Int64"}
UnsignedKinds == {"Uint", "Uint8", "Uint16", "Uint32", "Uint64", "Uintptr"}

\* the bit width of a concrete integer kind
KindWidth(as, ws) ==
    CASE as \in {"Int8", "Uint8"} -> 8
      [] as \in {"Int16", "Uint16"} -> 16
      [] as \in {"Int32", "Uint32"} -> 32
      [] as \in {"Int64", "Uint64"} -> 64
      [] as \in {"Int", "Uint", "Uintptr"} -> 8 * ws

\* C5: for every integer constant v, also one that does not fit in 64 bits,
\* and every concrete integer kind of width w, isRepresentableConst is true
\* iff -2^(w-1) <= v <= 2^(w-1)-1 (signed) or 0 <= v <= 2^w-1 (unsigned).
C5_IntegerRange ==
    (fn.name = "isRepresentableConst" /\ fn.x.kind = "Int"
        /\ fn.as \in SignedKinds \cup UnsignedKinds)
    => LET w == KindWidth(fn.as, fn.wordSize)
           v == fn.x.int
       IN fn.res =
            IF fn.as \in SignedKinds
            THEN BigCmp(BigNeg(Pow2(w - 1)), v) <= 0
                 /\ BigCmp(v, BigSub(Pow2(w - 1), BigOf(1))) <= 0
            ELSE BigSign(v) >= 0 /\ BigCmp(v, BigSub(Pow2(w), BigOf(1))) <= 0

\* 2^64 - 1, which is no int64, was found representable as uint64
C5_Witness ==
    /\ fn.name = "isRepresentableConst"
    /\ fn.x = MakeBig(BigSub(Pow2(64), BigOf(1)))
    /\ fn.as = "Uint64"
    /\ fn.res = TRUE

\* C6: isRepresentableConst accepts any value of matching category for
\* every untyped numeric kind: an integer as untyped int, rune, float and
\* complex; a float as untyped float and complex; a complex as untyped complex.
C6_UntypedNumeric ==
    (/\ fn.name = "isRepresentableConst"
     /\ \/ fn.x.kind = "Int" /\ fn.as \in {"UntypedInt", "UntypedRune",
                                           "UntypedFloat", "UntypedComplex"}
        \/ fn.x.kind = "Float" /\ fn.as \in {"UntypedFloat", "UntypedComplex"}
        \/ fn.x.kind = "Complex" /\ fn.as = "UntypedComplex")
    => fn.res = TRUE

=============================================================================
